---- MODULE Spec2Model ----
(***************************************************************************)
(* A model of the gateway core of sub2api:                                 *)
(*   - OpenAIGatewayHandler.Responses (user/account slots, failover loop), *)
(*   - the Sora Cloudflare-challenge cooldown registry,                    *)
(*   - IdentityService.GetOrCreateFingerprint.                             *)
(* Each part has its own specification over the shared variable tuple.     *)
(***************************************************************************)
EXTENDS Integers, Sequences, FiniteSets, TLC

(***************************************************************************)
(* Bounds of the model                                                     *)
(***************************************************************************)
\* accounts in the group's pool
NumAccounts == 4
\* liveness pings emitted during slot waits of one request
MaxPings == 1

\* record calls on one key that follow each other within the streak window
MaxChain == 3
\* advances of the clock in one behaviour
MaxTicks == 2
\* GetOrCreateFingerprint calls in one behaviour
MaxFingerprintCalls == 3
\* getAccessToken calls on the account in one behaviour
MaxTokenCalls == 2
\* minutes that pass between these calls
MaxTokenTicks == 1

\* maxAccountSwitches := 3 (default of NewOpenAIGatewayHandler)
DefaultMaxAccountSwitches == 3

VARIABLES
    \* ---- OpenAIGatewayHandler.Responses, one request ----
    cfg,                  \* the config NewOpenAIGatewayHandler was given
    maxAccountSwitches,   \* h.maxAccountSwitches
    reqStream,            \* the request's "stream" field
    pc,                   \* position of the handler
    ctxDone,              \* c.Request.Context() is cancelled
    streamStarted,        \* local streamStarted
    writer,               \* c.Writer: [out: frames written, status: HTTP status sent]
    pings,                \* pings emitted so far
    userSlot,             \* user slot release closure: "nil" | "held" | "released"
    userWatch,            \* wrapReleaseOnDone armed for the user slot
    waitCounted,          \* local waitCounted
    userWaitInc,          \* successful IncrementWaitCount calls
    userWaitDec,          \* DecrementWaitCount calls
    switchCount,          \* local switchCount
    failedAccountIDs,     \* local failedAccountIDs
    lastFailoverErr,      \* local lastFailoverErr
    errorPassthroughService, \* h.errorPassthroughService: its rules (none: nil)
    account,              \* selection.Account.ID of this iteration (0: none)
    acctSlot,             \* per account: "nil" | "held" | "released"
    acctWatch,            \* wrapReleaseOnDone armed for the account slot
    accountWaitCounted,   \* local accountWaitCounted
    acctWaitInc,          \* per account: successful IncrementAccountWaitCount calls
    acctWaitDec,          \* per account: DecrementAccountWaitCount calls
    sticky,               \* the last BindStickySession call: its account (0: none), its error
    slotAcquiredBy,       \* who acquired the account slot of this iteration:
                          \* "selection" | "fast" | "wait" ("none": not acquired)
    forwardCalls,         \* Forward calls made
    failedOver,           \* accounts whose Forward returned a failover error
    failoverCodes,        \* the upstream statuses of these failover errors
    usage,                \* account RecordUsage was scheduled with (0: none)
    \* ---- SoraDirectClient: Cloudflare-challenge cooldown registry ----
    now,                  \* time.Now(), in clock units
    cooldownCfg,          \* c.cfg, with Sora.Client.CloudflareChallengeCooldownSeconds
    challengeCooldowns,   \* c.challengeCooldowns: key -> soraChallengeCooldownEntry
    scope,                \* the callers at work and the account ids they call with
    calls,                \* per caller: the call in progress and its locals
    returned,             \* what the check call that just returned has returned
    ticks,                \* clock advances so far
    hist,                 \* per key: the record/clear calls seen (history)
    \* ---- IdentityService: fingerprint of one account ----
    fpCache,              \* the fingerprint the IdentityCache holds (NoFingerprint: none)
    fpCalls,              \* per caller: the GetOrCreateFingerprint call in progress
    fpReturned,           \* what the call that just returned was given and has returned
    fpHist,               \* the calls seen (history)
    \* ---- SoraSDKClient: access token of one account ----
    tmCfg,                \* the client's collaborators and the account of the calls
    credentials,          \* account.Credentials (in memory)
    accountRepoRow,       \* the credentials the Account repository holds
    soraAccountRow,       \* the columns the Sora extension repository holds
    wall,                 \* time.Now(), in minutes
    tmCalls,              \* getAccessToken calls so far
    tmPc,                 \* position of the call in progress
    tmLocals,             \* its locals
    tmLog,                \* the calls the last getAccessToken call has made, in order
    tmReturned,           \* what the last getAccessToken call has returned
    \* ---- SoraDirectClient.sidecarSessions ----
    sidecarCfg,           \* reuse switch and ttl of the client configuration
    sidecarClock,         \* time.Now(), in seconds
    sidecarSessions,      \* c.sidecarSessions: key -> entry
    sidecarCalls,         \* per goroutine: position and locals of its sidecarSessionKey call
    sidecarSeq,           \* number of uuids drawn so far
    sidecarReturned,      \* what the last sidecarSessionKey call has returned
    sidecarTicks,         \* clock steps taken
    \* ---- functions without state ----
    applied,              \* the last application: function, arguments, result
    \* ---- SoraSDKClient.sdkClients ----
    sdkClients,           \* c.sdkClients: proxy URL -> SDK client instance
    sdkCalls,             \* per goroutine: position and proxy URL of its getSDKClient call
    sdkNew,               \* instances sora.New has created so far
    sdkStarted,           \* getSDKClient calls started so far
    sdkReturned           \* what the last getSDKClient call has returned

hvars == <<cfg, maxAccountSwitches, reqStream, pc, ctxDone, streamStarted, writer, pings,
           userSlot, userWatch, waitCounted, userWaitInc, userWaitDec,
           switchCount, failedAccountIDs, lastFailoverErr, errorPassthroughService,
           account,
           acctSlot, acctWatch, accountWaitCounted, acctWaitInc, acctWaitDec,
           sticky, slotAcquiredBy, forwardCalls, failedOver, failoverCodes, usage>>

cvars == <<now, cooldownCfg, scope, challengeCooldowns, calls, returned, ticks, hist>>

fvars == <<fpCache, fpCalls, fpReturned, fpHist>>

tvars == <<tmCfg, credentials, accountRepoRow, soraAccountRow, wall, tmCalls, tmPc,
           tmLocals, tmLog, tmReturned>>

svars == <<sidecarCfg, sidecarClock, sidecarSessions, sidecarCalls, sidecarSeq,
           sidecarReturned, sidecarTicks>>

pvars == <<applied>>

kvars == <<sdkClients, sdkCalls, sdkNew, sdkStarted, sdkReturned>>

vars == <<hvars, cvars, fvars, tvars, svars, pvars, kvars>>
\* what an action of one component leaves alone
otherThanHandler == <<cvars, fvars, tvars, svars, pvars, kvars>>
otherThanCooldown == <<hvars, fvars, tvars, svars, pvars, kvars>>
otherThanIdentity == <<hvars, cvars, tvars, svars, pvars, kvars>>
otherThanToken == <<hvars, cvars, fvars, svars, pvars, kvars>>
otherThanSidecar == <<hvars, cvars, fvars, tvars, pvars, kvars>>
otherThanPure == <<hvars, cvars, fvars, tvars, svars, kvars>>
otherThanSDK == <<hvars, cvars, fvars, tvars, svars, pvars>>

Accounts == 1..NumAccounts

\* cfg handed to NewOpenAIGatewayHandler: nil, or one with Gateway.MaxAccountSwitches
CfgValues ==
    {[nil |-> TRUE, MaxAccountSwitches |-> 0]}
        \cup {[nil |-> FALSE, MaxAccountSwitches |-> n] : n \in -1..2}

\* upstream failover errors Forward can return
FailoverStatusCodes == {429, 502}
\* failoverErr.ResponseBody of an error of this account: empty, or a body of its own
UpstreamBodies(a) == {"", "body of account " \o ToString(a)}
NoErr == [StatusCode |-> 0, ResponseBody |-> ""]
FailoverErr(code, body) == [StatusCode |-> code, ResponseBody |-> body]

\* the failover errors Forward can return for this account
FailoverErrs(a) ==
    {FailoverErr(code, body) : code \in FailoverStatusCodes, body \in UpstreamBodies(a)}

\* error passthrough rules for platform "openai": the upstream status a rule
\* matches, and what it passes through or puts in its place (0 and "": nil)
PassthroughAll ==
    [status |-> 502, PassthroughCode |-> TRUE, ResponseCode |-> 0,
     PassthroughBody |-> TRUE, CustomMessage |-> ""]
PassthroughCustom ==
    [status |-> 502, PassthroughCode |-> FALSE, ResponseCode |-> 503,
     PassthroughBody |-> FALSE, CustomMessage |-> "custom message"]
PassthroughServices == {{}, {PassthroughAll}, {PassthroughCustom}}
\* errorPassthroughService.MatchRule("openai", statusCode, responseBody)
MatchRule(service, statusCode, responseBody) ==
    {r \in service : r.status = statusCode}
\* service.ExtractUpstreamErrorMessage(responseBody)
ExtractUpstreamErrorMessage(responseBody) == "upstream: " \o responseBody

(***************************************************************************)
(* Pure helpers of the handler                                             *)
(***************************************************************************)
NewOpenAIGatewayHandler(config) ==
    IF ~config.nil /\ config.MaxAccountSwitches > 0
    THEN config.MaxAccountSwitches
    ELSE DefaultMaxAccountSwitches

Frame(kind, status, errType, message) ==
    [kind |-> kind, status |-> status, type |-> errType, message |-> message]

\* a write to c.Writer: the first write fixes the HTTP status
WriteFrame(w, f, status) ==
    [out |-> Append(w.out, f), status |-> IF w.out = <<>> THEN status ELSE w.status]

Written(w) == w.out # <<>>

errorResponse_Status200(w, status, errType, message) ==
    WriteFrame(w, Frame("json", status, errType, message), 200)

errorResponse(w, status, errType, message) ==
    WriteFrame(w, Frame("json", status, errType, message), status)

handleStreamingAwareError_AlwaysJSON(w, status, errType, message, started) ==
    errorResponse(w, status, errType, message)

handleStreamingAwareError(w, status, errType, message, started) ==
    IF started
    THEN WriteFrame(w, Frame("sse", 0, errType, message), 200)
    ELSE errorResponse(w, status, errType, message)

handleConcurrencyError_ServerError(w, slotType, started) ==
    handleStreamingAwareError(w, 500, "api_error",
        IF slotType = "user"
        THEN "Concurrency limit exceeded for user, please retry later"
        ELSE "Concurrency limit exceeded for account, please retry later",
        started)

handleConcurrencyError(w, slotType, started) ==
    handleStreamingAwareError(w, 429, "rate_limit_error",
        IF slotType = "user"
        THEN "Concurrency limit exceeded for user, please retry later"
        ELSE "Concurrency limit exceeded for account, please retry later",
        started)

mapUpstreamError(statusCode) ==
    CASE statusCode = 401 ->
           <<502, "upstream_error", "Upstream authentication failed, please contact administrator">>
      [] statusCode = 403 ->
           <<502, "upstream_error", "Upstream access forbidden, please contact administrator">>
      [] statusCode = 429 ->
           <<429, "rate_limit_error", "Upstream rate limit exceeded, please retry later">>
      [] statusCode = 529 ->
           <<503, "upstream_error", "Upstream service overloaded, please retry later">>
      [] statusCode \in {500, 502, 503, 504} ->
           <<502, "upstream_error", "Upstream service temporarily unavailable">>
      [] OTHER ->
           <<502, "upstream_error", "Upstream request failed">>

handleFailoverExhausted(w, service, failoverErr, started) ==
    LET statusCode == failoverErr.StatusCode
        responseBody == failoverErr.ResponseBody
        matched == IF service # {} /\ responseBody # ""
                   THEN MatchRule(service, statusCode, responseBody)
                   ELSE {}
        m == mapUpstreamError(statusCode)
    IN  IF matched # {}
        THEN LET rule == CHOOSE r \in matched : TRUE
                 respCode == IF ~rule.PassthroughCode /\ rule.ResponseCode # 0
                             THEN rule.ResponseCode ELSE statusCode
                 msg == IF ~rule.PassthroughBody /\ rule.CustomMessage # ""
                        THEN rule.CustomMessage
                        ELSE ExtractUpstreamErrorMessage(responseBody)
             IN  handleStreamingAwareError(w, respCode, "upstream_error", msg, started)
        ELSE handleStreamingAwareError(w, m[1], m[2], m[3], started)

handleFailoverExhaustedSimple(w, statusCode, started) ==
    LET m == mapUpstreamError(statusCode)
    IN  handleStreamingAwareError(w, m[1], m[2], m[3], started)

ensureForwardErrorResponse_Always(w, started) ==
    handleStreamingAwareError(w, 502, "upstream_error", "Upstream request failed", started)

ensureForwardErrorResponse(w, started) ==
    IF Written(w)
    THEN w
    ELSE handleStreamingAwareError(w, 502, "upstream_error", "Upstream request failed", started)

scheduleRecordUsage_FirstAccount(usedAccount) == 1

\* go func(result, usedAccount, ...): the account RecordUsage is scheduled with
scheduleRecordUsage(usedAccount) == usedAccount

\* billingErrorDetails(err): the billing module's mapping
\* no BindStickySession call yet
NoBind == [account |-> 0, err |-> FALSE]

billingErrorDetails == <<403, "billing_error", "billing check failed">>

(***************************************************************************)
(* Slot release closures                                                   *)
(***************************************************************************)
\* a release closure of the ConcurrencyHelper: gives the slot back once
releaseFunc(slot) == IF slot = "held" THEN "released" ELSE slot

\* wrapReleaseOnDone(ctx, release): nil stays nil, otherwise a watcher is armed
wrapReleaseOnDone(slot) == slot # "nil"

releaseAfterForward_OnlyOnSuccess(slot, outcome) ==
    IF outcome = "ok" THEN releaseFunc(slot) ELSE slot

releaseAfterForward_SkipOnFailover(slot, outcome) ==
    IF outcome = "failover" THEN slot ELSE releaseFunc(slot)

\* accountReleaseFunc() after Forward has returned, whatever it returned
releaseAfterForward(slot, outcome) == releaseFunc(slot)

deferredDecrementWaitCount_Missing(counted, dec) == dec

\* the deferred DecrementWaitCount of the user wait queue
deferredDecrementWaitCount(counted, dec) == IF counted THEN dec + 1 ELSE dec

\* releaseWait() of the account wait queue
releaseWait(counted, dec) == IF counted THEN dec + 1 ELSE dec

switchBudgetExhausted_Never(count, max) == FALSE

switchBudgetExhausted_OffByOne(count, max) == count > max

\* switchCount >= maxAccountSwitches
switchBudgetExhausted(count, max) == count >= max

(***************************************************************************)
(* OpenAIGatewayHandler.Responses                                          *)
(***************************************************************************)
HInit ==
    /\ cfg \in CfgValues
    /\ maxAccountSwitches = NewOpenAIGatewayHandler(cfg)
    /\ reqStream \in BOOLEAN
    /\ pc = "start"
    /\ ctxDone = FALSE
    /\ streamStarted = FALSE
    /\ writer = [out |-> <<>>, status |-> 0]
    /\ pings = 0
    /\ userSlot = "nil"
    /\ userWatch = FALSE
    /\ waitCounted = FALSE
    /\ userWaitInc = 0
    /\ userWaitDec = 0
    /\ switchCount = 0
    /\ failedAccountIDs = {}
    /\ lastFailoverErr = NoErr
    /\ errorPassthroughService \in PassthroughServices
    /\ account = 0
    /\ acctSlot = [a \in Accounts |-> "nil"]
    /\ acctWatch = FALSE
    /\ accountWaitCounted = FALSE
    /\ acctWaitInc = [a \in Accounts |-> 0]
    /\ acctWaitDec = [a \in Accounts |-> 0]
    /\ sticky = NoBind
    /\ slotAcquiredBy = "none"
    /\ forwardCalls = 0
    /\ failedOver = {}
    /\ failoverCodes = {}
    /\ usage = 0

userVars == <<userSlot, userWatch, waitCounted, userWaitInc, userWaitDec>>
loopVars == <<switchCount, failedAccountIDs, lastFailoverErr, failedOver, failoverCodes>>
acctVars == <<account, acctSlot, acctWatch, accountWaitCounted, acctWaitInc, acctWaitDec, sticky,
              slotAcquiredBy>>
reqVars  == <<cfg, maxAccountSwitches, errorPassthroughService, reqStream, ctxDone>>

\* Responses returns: the deferred calls run (user release, wait-count decrement)
Return ==
    /\ pc' = "done"
    /\ userSlot' = releaseFunc(userSlot)
    /\ userWaitDec' = deferredDecrementWaitCount(waitCounted, userWaitDec)
    /\ UNCHANGED <<userWatch, waitCounted, userWaitInc>>

\* 0. TryAcquireUserSlot, and IncrementWaitCount when the slot was not acquired
TryUserSlot ==
    /\ pc = "start"
    /\ UNCHANGED otherThanHandler
    /\ \/ \* TryAcquireUserSlot failed
          /\ writer' = handleConcurrencyError(writer, "user", streamStarted)
          /\ Return
       \/ \* slot acquired on the fast path
          /\ userSlot' = "held"
          /\ userWatch' = wrapReleaseOnDone("held")
          /\ pc' = "billing"
          /\ UNCHANGED <<writer, waitCounted, userWaitInc, userWaitDec>>
       \/ \* not acquired, IncrementWaitCount failed: goes on to wait, uncounted
          /\ pc' = "userWait"
          /\ UNCHANGED <<writer, userVars>>
       \/ \* not acquired, wait queue full
          /\ writer' = errorResponse(writer, 429, "rate_limit_error",
                                     "Too many pending requests, please retry later")
          /\ Return
       \/ \* not acquired, counted as a waiter
          /\ waitCounted' = TRUE
          /\ userWaitInc' = userWaitInc + 1
          /\ pc' = "userWait"
          /\ UNCHANGED <<writer, userSlot, userWatch, userWaitDec>>
    /\ UNCHANGED <<reqVars, streamStarted, pings, loopVars, acctVars, forwardCalls, usage>>

\* a liveness ping of a slot wait (streaming requests only)
Ping ==
    /\ pc \in {"userWait", "acctWait"}
    /\ UNCHANGED otherThanHandler
    /\ reqStream
    /\ pings < MaxPings
    /\ pings' = pings + 1
    /\ streamStarted' = TRUE
    /\ writer' = WriteFrame(writer, Frame("ping", 0, "", ""), 200)
    /\ UNCHANGED <<reqVars, pc, userVars, loopVars, acctVars, forwardCalls, usage>>

\* AcquireUserSlotWithWait returns
UserWaitReturn ==
    /\ pc = "userWait"
    /\ UNCHANGED otherThanHandler
    /\ \/ \* timed out, cancelled or failed
          /\ writer' = handleConcurrencyError(writer, "user", streamStarted)
          /\ Return
       \/ \* slot acquired: leave the wait queue
          /\ userSlot' = "held"
          /\ userWaitDec' = IF waitCounted THEN userWaitDec + 1 ELSE userWaitDec
          /\ waitCounted' = FALSE
          /\ userWatch' = wrapReleaseOnDone("held")
          /\ pc' = "billing"
          /\ UNCHANGED <<writer, userWaitInc>>
    /\ UNCHANGED <<reqVars, streamStarted, pings, loopVars, acctVars, forwardCalls, usage>>

\* 2. CheckBillingEligibility
Billing ==
    /\ pc = "billing"
    /\ UNCHANGED otherThanHandler
    /\ \/ /\ writer' = handleStreamingAwareError(writer, billingErrorDetails[1],
                           billingErrorDetails[2], billingErrorDetails[3], streamStarted)
          /\ Return
       \/ /\ pc' = "select"
          /\ UNCHANGED <<writer, userVars>>
    /\ UNCHANGED <<reqVars, streamStarted, pings, loopVars, acctVars, forwardCalls, usage>>

\* BindStickySession(group, sessionHash, account.ID); a failure is only logged
BindStickySession_Skipped(a) == UNCHANGED sticky

\* BindStickySession(ctx, groupID, sessionHash, account.ID): it may return an
\* error, which is logged
BindStickySession(a) == \E err \in BOOLEAN : sticky' = [account |-> a, err |-> err]

\* wrapReleaseOnDone of the account slot, then Forward is called
CallForward(a, slot) ==
    /\ acctWatch' = wrapReleaseOnDone(slot)
    /\ forwardCalls' = forwardCalls + 1
    /\ pc' = "forward"

SelectFails_Always503 ==
    /\ writer' = handleStreamingAwareError(writer, 503, "api_error",
                                           "Service temporarily unavailable", streamStarted)
    /\ Return
    /\ UNCHANGED <<acctVars, forwardCalls>>

\* the selection failed: 503 when nothing failed over before, else the last failover error
SelectFails ==
    /\ writer' =
         IF failedAccountIDs = {}
         THEN handleStreamingAwareError(writer, 503, "api_error",
                                        "Service temporarily unavailable", streamStarted)
         ELSE IF lastFailoverErr # NoErr
              THEN handleFailoverExhausted(writer, errorPassthroughService,
                                           lastFailoverErr, streamStarted)
              ELSE handleFailoverExhaustedSimple(writer, 502, streamStarted)
    /\ Return
    /\ UNCHANGED <<acctVars, forwardCalls>>

\* the account SelectAccountWithLoadAwareness returns is outside the excluded
\* ids; the accounts being interchangeable, it is named by the lowest such id
Eligible(excluded) ==
    {a \in Accounts \ excluded : \A b \in Accounts \ excluded : a <= b}

\* SelectAccountWithLoadAwareness and the account slot, up to the wait or the Forward call
Select ==
    /\ pc = "select"
    /\ UNCHANGED otherThanHandler
    /\ \/ SelectFails
       \/ \E a \in Eligible(failedAccountIDs) :
            /\ account' = a
            /\ \/ \* selection.Acquired: the selector holds the slot already
                  /\ acctSlot' = [acctSlot EXCEPT ![a] = "held"]
                  /\ slotAcquiredBy' = "selection"
                  /\ CallForward(a, "held")
                  /\ UNCHANGED <<writer, userVars, accountWaitCounted, acctWaitInc,
                                 acctWaitDec, sticky>>
               \/ \* not acquired and no WaitPlan
                  /\ writer' = handleStreamingAwareError(writer, 503, "api_error",
                                        "No available accounts", streamStarted)
                  /\ Return
                  /\ UNCHANGED <<acctSlot, acctWatch, accountWaitCounted, acctWaitInc,
                                 acctWaitDec, sticky, slotAcquiredBy, forwardCalls>>
               \/ \* TryAcquireAccountSlot failed
                  /\ writer' = handleConcurrencyError(writer, "account", streamStarted)
                  /\ Return
                  /\ UNCHANGED <<acctSlot, acctWatch, accountWaitCounted, acctWaitInc,
                                 acctWaitDec, sticky, slotAcquiredBy, forwardCalls>>
               \/ \* TryAcquireAccountSlot acquired the slot
                  /\ acctSlot' = [acctSlot EXCEPT ![a] = "held"]
                  /\ slotAcquiredBy' = "fast"
                  /\ BindStickySession(a)
                  /\ CallForward(a, "held")
                  /\ UNCHANGED <<writer, userVars, accountWaitCounted, acctWaitInc,
                                 acctWaitDec>>
               \/ \* not acquired, IncrementAccountWaitCount failed: waits uncounted
                  /\ accountWaitCounted' = FALSE
                  /\ pc' = "acctWait"
                  /\ UNCHANGED <<writer, userVars, acctSlot, acctWatch, acctWaitInc,
                                 acctWaitDec, sticky, slotAcquiredBy, forwardCalls>>
               \/ \* not acquired, account wait queue full
                  /\ writer' = handleStreamingAwareError(writer, 429, "rate_limit_error",
                            "Too many pending requests, please retry later", streamStarted)
                  /\ Return
                  /\ UNCHANGED <<acctSlot, acctWatch, accountWaitCounted, acctWaitInc,
                                 acctWaitDec, sticky, slotAcquiredBy, forwardCalls>>
               \/ \* not acquired, counted as a waiter of the account
                  /\ accountWaitCounted' = TRUE
                  /\ acctWaitInc' = [acctWaitInc EXCEPT ![a] = @ + 1]
                  /\ pc' = "acctWait"
                  /\ UNCHANGED <<writer, userVars, acctSlot, acctWatch, acctWaitDec,
                                 sticky, slotAcquiredBy, forwardCalls>>
    /\ UNCHANGED <<reqVars, streamStarted, pings, loopVars, usage>>

\* AcquireAccountSlotWithWaitTimeout returns
AcctWaitReturn ==
    /\ pc = "acctWait"
    /\ UNCHANGED otherThanHandler
    /\ acctWaitDec' = [acctWaitDec EXCEPT
                          ![account] = releaseWait(accountWaitCounted, @)]
    /\ accountWaitCounted' = FALSE
    /\ \/ \* timed out, cancelled or failed
          /\ writer' = handleConcurrencyError(writer, "account", streamStarted)
          /\ Return
          /\ UNCHANGED <<acctSlot, acctWatch, sticky, slotAcquiredBy, forwardCalls>>
       \/ \* slot acquired
          /\ acctSlot' = [acctSlot EXCEPT ![account] = "held"]
          /\ slotAcquiredBy' = "wait"
          /\ BindStickySession(account)
          /\ CallForward(account, "held")
          /\ UNCHANGED <<writer, userVars>>
    /\ UNCHANGED <<reqVars, streamStarted, pings, loopVars, account, acctWaitInc, usage>>

ForwardReturn_NeverReturns == pc = "forward" /\ UNCHANGED vars

\* Forward returns; the account slot is released, then the result is handled
ForwardReturn ==
    /\ pc = "forward"
    /\ UNCHANGED otherThanHandler
    /\ \/ \* success: the response was written by Forward, usage recording is scheduled
          /\ acctSlot' = [acctSlot EXCEPT ![account] = releaseAfterForward(@, "ok")]
          /\ writer' = WriteFrame(writer, Frame("body", 200, "", ""), 200)
          /\ usage' = scheduleRecordUsage(account)
          /\ Return
          /\ UNCHANGED loopVars
       \/ \* UpstreamFailoverError: exclude the account, give up or switch
          \E failoverErr \in FailoverErrs(account) :
            /\ acctSlot' = [acctSlot EXCEPT ![account] = releaseAfterForward(@, "failover")]
            /\ failedAccountIDs' = failedAccountIDs \cup {account}
            /\ failedOver' = failedOver \cup {account}
            /\ failoverCodes' = failoverCodes \cup {failoverErr.StatusCode}
            /\ lastFailoverErr' = failoverErr
            /\ IF switchBudgetExhausted(switchCount, maxAccountSwitches)
               THEN /\ writer' = handleFailoverExhausted(writer, errorPassthroughService,
                                                         failoverErr,
                                                         streamStarted)
                    /\ Return
                    /\ UNCHANGED switchCount
               ELSE /\ switchCount' = switchCount + 1
                    /\ pc' = "select"
                    /\ UNCHANGED <<writer, userVars>>
            /\ UNCHANGED usage
       \/ \* any other error; Forward may have written to the client before failing
          \E wrote \in BOOLEAN :
            /\ acctSlot' = [acctSlot EXCEPT ![account] = releaseAfterForward(@, "error")]
            /\ writer' = ensureForwardErrorResponse(
                             IF wrote
                             THEN WriteFrame(writer, Frame("partial", 200, "", ""), 200)
                             ELSE writer,
                             streamStarted)
            /\ Return
            /\ UNCHANGED <<loopVars, usage>>
    /\ slotAcquiredBy' = "none"
    /\ UNCHANGED <<reqVars, streamStarted, pings, account, acctWatch, accountWaitCounted,
                   acctWaitInc, acctWaitDec, forwardCalls, sticky>>

\* the client disconnects or the request is cancelled
Cancel ==
    /\ pc # "done"
    /\ UNCHANGED otherThanHandler
    /\ ~ctxDone
    /\ ctxDone' = TRUE
    /\ UNCHANGED <<cfg, maxAccountSwitches, errorPassthroughService, reqStream, pc, streamStarted, writer, pings,
                   userVars, loopVars, acctVars, forwardCalls, usage>>

\* the context-done watcher of the user slot fires
UserReleaseOnDone ==
    /\ ctxDone
    /\ UNCHANGED otherThanHandler
    /\ userWatch
    /\ userSlot = "held"
    /\ userSlot' = releaseFunc(userSlot)
    /\ UNCHANGED <<reqVars, pc, streamStarted, writer, pings, userWatch, waitCounted,
                   userWaitInc, userWaitDec, loopVars, acctVars, forwardCalls, usage>>

\* the context-done watcher of the account slot fires
AccountReleaseOnDone ==
    /\ ctxDone
    /\ UNCHANGED otherThanHandler
    /\ acctWatch
    /\ pc = "forward"
    /\ acctSlot[account] = "held"
    /\ acctSlot' = [acctSlot EXCEPT ![account] = releaseFunc(@)]
    /\ UNCHANGED <<reqVars, pc, streamStarted, writer, pings, userVars, loopVars,
                   account, acctWatch, accountWaitCounted, acctWaitInc, acctWaitDec,
                   sticky, slotAcquiredBy, forwardCalls, usage>>

HNext ==
    \/ TryUserSlot
    \/ Ping
    \/ UserWaitReturn
    \/ Billing
    \/ Select
    \/ AcctWaitReturn
    \/ ForwardReturn
    \/ Cancel
    \/ UserReleaseOnDone
    \/ AccountReleaseOnDone

(***************************************************************************)
(* Cloudflare-challenge cooldown registry of SoraDirectClient              *)
(***************************************************************************)
\* clock units in one second (time.Second)
UnitsPerSecond == 2
Seconds(n) == n * UnitsPerSecond
\* 30 * time.Minute
StreakWindow == Seconds(1800)
\* cooldown returned when c.cfg is nil
NilCfgCooldownSeconds == 900
\* upper clamp of soraComputeChallengeCooldownSeconds
MaxCooldownSeconds == 3600
\* multiplier clamp of soraComputeChallengeCooldownSeconds
MaxStreakMultiplier == 4

\* goroutines calling into the registry
Callers == {1, 2}
\* account.ID of the calls; 0 stands for a nil account or a non-positive id
AccountIDs == {0, 1, 2}
\* the clock advances by a minute, or by half a second over 30 minutes
TickSteps == {Seconds(60), Seconds(1800) + 1}
\* configurations: nil, or CloudflareChallengeCooldownSeconds
CooldownCfgValues ==
    {[nil |-> TRUE, seconds |-> 0]} \cup {[nil |-> FALSE, seconds |-> n] : n \in {-1, 60}}
\* Cloudflare ray ids ExtractCloudflareRayID can return
CFRays == {"", "ray-1"}

\* "account:%d|proxy:%s" of the account id and the normalized proxy key
soraAccountProxyKey(accountID, proxyKey) == <<accountID, proxyKey>>
Keys == {soraAccountProxyKey(a, "direct") : a \in AccountIDs \ {0}}

\* A Go int (64 bits, two's complement) as four 16-bit limbs, least significant
\* first; arithmetic wraps as the machine's does.
LimbBase == 65536
Int64Zero == <<0, 0, 0, 0>>
\* the int64 of an integer of the model
Int64Of(n) ==
    IF n >= 0 THEN <<n % LimbBase, n \div LimbBase, 0, 0>>
    ELSE LET k == (-n) - 1 IN
         <<LimbBase - 1 - (k % LimbBase), LimbBase - 1 - (k \div LimbBase),
           LimbBase - 1, LimbBase - 1>>
Int64Negative(x) == x[4] >= LimbBase \div 2
\* the integer of an int64 between -2^31 and 2^31 - 1
IntOf(x) ==
    IF Int64Negative(x)
    THEN -((LimbBase - 1 - x[2]) * LimbBase + (LimbBase - 1 - x[1])) - 1
    ELSE x[2] * LimbBase + x[1]
\* x * m for 0 <= m < 2^15, wrapped to 64 bits
MulInt64(x, m) ==
    LET p1 == x[1] * m
        p2 == x[2] * m + p1 \div LimbBase
        p3 == x[3] * m + p2 \div LimbBase
        p4 == x[4] * m + p3 \div LimbBase
    IN  <<p1 % LimbBase, p2 % LimbBase, p3 % LimbBase, p4 % LimbBase>>
\* x > n for 0 <= n < 2^31
GreaterInt64(x, n) ==
    /\ ~Int64Negative(x)
    /\ \/ x[4] > 0
       \/ x[3] > 0
       \/ x[2] > n \div LimbBase
       \/ x[2] = n \div LimbBase /\ x[1] > n % LimbBase

\* x + n for 0 <= n < 2^15, wrapped to 64 bits
AddInt64(x, n) ==
    LET s1 == x[1] + n
        s2 == x[2] + s1 \div LimbBase
        s3 == x[3] + s2 \div LimbBase
        s4 == x[4] + s3 \div LimbBase
    IN  <<s1 % LimbBase, s2 % LimbBase, s3 % LimbBase, s4 % LimbBase>>
MaxInt64 == <<LimbBase - 1, LimbBase - 1, LimbBase - 1, LimbBase \div 2 - 1>>

cloudflareChallengeCooldownSeconds(config) ==
    IF config.nil THEN NilCfgCooldownSeconds
    ELSE IF config.seconds <= 0 THEN 0 ELSE config.seconds

\* baseSeconds and the result are Go ints, streak is an integer of the model
soraComputeChallengeCooldownSeconds(baseSeconds, streak) ==
    IF Int64Negative(baseSeconds) \/ baseSeconds = Int64Zero THEN Int64Zero
    ELSE LET s == IF streak < 1 THEN 1 ELSE streak
             multiplier == IF s > MaxStreakMultiplier THEN MaxStreakMultiplier ELSE s
             cooldown == MulInt64(baseSeconds, multiplier)
         IN  IF GreaterInt64(cooldown, MaxCooldownSeconds)
             THEN Int64Of(MaxCooldownSeconds)
             ELSE cooldown

MapDelete_KeepsEntry(m, k) == m
\* delete(m, k)
MapDelete(m, k) == [x \in DOMAIN m \ {k} |-> m[x]]
MapPut(m, k, v) == [x \in DOMAIN m \cup {k} |-> IF x = k THEN v ELSE m[x]]

cleanupExpiredChallengeCooldownsLocked(m, t) ==
    [k \in {x \in DOMAIN m : m[x].Until > t} |-> m[k]]

cooldownExpired_Before(until, t) == until < t
\* !entry.Until.After(now)
cooldownExpired(until, t) == ~(until > t)

keepExistingUntil_Never(had, existingUntil, until) == FALSE
\* ok && existing.Until.After(until)
keepExistingUntil(had, existingUntil, until) == had /\ existingUntil > until

recordLocked_ComputedStreakOnly(m, key, t, cooldownSeconds, statusCode, ray) ==
    LET cleaned == cleanupExpiredChallengeCooldownsLocked(m, t)
        ok == key \in DOMAIN cleaned
        existing == IF ok THEN cleaned[key] ELSE [Until |-> 0, CFRay |-> "",
                                                  ConsecutiveChallenges |-> 0,
                                                  LastChallengeAt |-> 0]
        streak == IF ok /\ t - existing.LastChallengeAt <= StreakWindow
                  THEN existing.ConsecutiveChallenges + 1
                  ELSE 1
        effectiveCooldown ==
            IntOf(soraComputeChallengeCooldownSeconds(Int64Of(cooldownSeconds), streak))
        until == t + Seconds(effectiveCooldown)
        keep == keepExistingUntil(ok, existing.Until, until)
    IN  MapPut(cleaned, key,
               [Until |-> IF keep THEN existing.Until ELSE until,
                StatusCode |-> statusCode,
                CFRay |-> IF keep /\ ray = "" THEN existing.CFRay ELSE ray,
                ConsecutiveChallenges |-> streak,
                LastChallengeAt |-> t])

\* the locked part of recordCloudflareChallengeCooldown: the registry it leaves
recordLocked(m, key, t, cooldownSeconds, statusCode, ray) ==
    LET cleaned == cleanupExpiredChallengeCooldownsLocked(m, t)
        ok == key \in DOMAIN cleaned
        existing == IF ok THEN cleaned[key] ELSE [Until |-> 0, CFRay |-> "",
                                                  ConsecutiveChallenges |-> 0,
                                                  LastChallengeAt |-> 0]
        streak == IF ok /\ t - existing.LastChallengeAt <= StreakWindow
                  THEN existing.ConsecutiveChallenges + 1
                  ELSE 1
        effectiveCooldown ==
            IntOf(soraComputeChallengeCooldownSeconds(Int64Of(cooldownSeconds), streak))
        until == t + Seconds(effectiveCooldown)
        keep == keepExistingUntil(ok, existing.Until, until)
    IN  MapPut(cleaned, key,
               [Until |-> IF keep THEN existing.Until ELSE until,
                StatusCode |-> statusCode,
                CFRay |-> IF keep /\ ray = "" THEN existing.CFRay ELSE ray,
                ConsecutiveChallenges |->
                    IF keep /\ existing.ConsecutiveChallenges > streak
                    THEN existing.ConsecutiveChallenges
                    ELSE streak,
                LastChallengeAt |-> t])

\* int(math.Ceil(entry.Until.Sub(now).Seconds())), at least 1
remainingSeconds(until, t) ==
    LET r == (until - t + UnitsPerSecond - 1) \div UnitsPerSecond
    IN  IF r < 1 THEN 1 ELSE r

\* return nil
Ok == [StatusCode |-> 0, remaining |-> 0, streak |-> 0, cfRay |-> ""]
\* the SoraUpstreamError of an active cooldown; its message names these values
CooldownError(entry, t) ==
    [StatusCode |-> 429,
     remaining |-> remainingSeconds(entry.Until, t),
     streak |-> IF entry.ConsecutiveChallenges > 1 THEN entry.ConsecutiveChallenges ELSE 0,
     cfRay |-> entry.CFRay]

Idle == [pc |-> "idle", key |-> <<0, "direct">>, now |-> 0]
NoReturn == [op |-> "none", account |-> 0, now |-> 0, deleted |-> FALSE, value |-> Ok]
CheckReturn(a, t, deleted, value) ==
    [op |-> "check", account |-> a, now |-> t, deleted |-> deleted, value |-> value]
NoHist == [chain |-> 0, last |-> -1, sinceClear |-> -1, clearedStreak |-> 0]

CInitWith(configs, callers, accounts) ==
    /\ now = 0
    /\ cooldownCfg \in configs
    /\ scope = [callers |-> callers, accounts |-> accounts]
    /\ challengeCooldowns = << >>
    /\ calls = [p \in Callers |-> Idle]
    /\ returned = NoReturn
    /\ ticks = 0
    /\ hist = [k \in Keys |-> NoHist]

CInit == CInitWith(CooldownCfgValues, Callers, {0, 1})
CIdle == CInitWith({[nil |-> TRUE, seconds |-> 0]}, {}, {})

Tick ==
    /\ ticks < MaxTicks
    /\ UNCHANGED otherThanCooldown
    /\ \E d \in TickSteps : now' = now + d
    /\ ticks' = ticks + 1
    /\ returned' = NoReturn
    /\ UNCHANGED <<cooldownCfg, scope, challengeCooldowns, calls, hist>>

\* checkCloudflareChallengeCooldown up to now := time.Now()
CheckCall(p) ==
    /\ p \in scope.callers
    /\ UNCHANGED otherThanCooldown
    /\ calls[p].pc = "idle"
    /\ \E a \in scope.accounts :
         IF a <= 0 \/ cloudflareChallengeCooldownSeconds(cooldownCfg) <= 0
         THEN /\ returned' = CheckReturn(a, now, FALSE, Ok)
              /\ UNCHANGED calls
         ELSE /\ calls' = [calls EXCEPT ![p] =
                              [pc |-> "checkRead", key |-> soraAccountProxyKey(a, "direct"),
                               now |-> now]]
              /\ returned' = NoReturn
    /\ UNCHANGED <<now, cooldownCfg, scope, challengeCooldowns, ticks, hist>>

\* the read under RLock and what follows it, up to the Lock of the delete
CheckRead(p) ==
    LET c == calls[p] IN
    /\ c.pc = "checkRead"
    /\ UNCHANGED otherThanCooldown
    /\ IF c.key \notin DOMAIN challengeCooldowns
       THEN /\ returned' = CheckReturn(c.key[1], c.now, FALSE, Ok)
            /\ calls' = [calls EXCEPT ![p] = Idle]
       ELSE IF cooldownExpired(challengeCooldowns[c.key].Until, c.now)
            THEN /\ calls' = [calls EXCEPT ![p].pc = "checkDelete"]
                 /\ returned' = NoReturn
            ELSE /\ returned' = CheckReturn(c.key[1], c.now, FALSE,
                                     CooldownError(challengeCooldowns[c.key], c.now))
                 /\ calls' = [calls EXCEPT ![p] = Idle]
    /\ UNCHANGED <<now, cooldownCfg, scope, challengeCooldowns, ticks, hist>>

\* delete(c.challengeCooldowns, key) under Lock, return nil
CheckDelete(p) ==
    LET c == calls[p] IN
    /\ c.pc = "checkDelete"
    /\ UNCHANGED otherThanCooldown
    /\ challengeCooldowns' = MapDelete(challengeCooldowns, c.key)
    /\ returned' = CheckReturn(c.key[1], c.now, TRUE, Ok)
    /\ calls' = [calls EXCEPT ![p] = Idle]
    /\ UNCHANGED <<now, cooldownCfg, scope, ticks, hist>>

\* recordCloudflareChallengeCooldown up to the Lock
RecordCall(p) ==
    /\ p \in scope.callers
    /\ UNCHANGED otherThanCooldown
    /\ calls[p].pc = "idle"
    /\ \E a \in scope.accounts :
         IF a <= 0 \/ cloudflareChallengeCooldownSeconds(cooldownCfg) <= 0
         THEN UNCHANGED calls
         ELSE /\ hist[soraAccountProxyKey(a, "direct")].chain < MaxChain
              /\ calls' = [calls EXCEPT ![p] =
                              [pc |-> "record", key |-> soraAccountProxyKey(a, "direct"),
                               now |-> now]]
    /\ returned' = NoReturn
    /\ UNCHANGED <<now, cooldownCfg, scope, challengeCooldowns, ticks, hist>>

\* the locked part of recordCloudflareChallengeCooldown
RecordLocked(p) ==
    LET c == calls[p]
        h == hist[c.key]
    IN
    /\ c.pc = "record"
    /\ UNCHANGED otherThanCooldown
    /\ \E cfRay \in CFRays :
         challengeCooldowns' =
           recordLocked(challengeCooldowns, c.key, c.now,
                        cloudflareChallengeCooldownSeconds(cooldownCfg), 403, cfRay)
    /\ hist' = [hist EXCEPT ![c.key] =
                  [chain |-> IF h.last >= 0 /\ c.now - h.last <= StreakWindow
                             THEN h.chain + 1 ELSE 1,
                   last |-> c.now,
                   sinceClear |-> IF h.sinceClear < 0 THEN -1
                                  ELSE IF h.sinceClear = 0 THEN 1 ELSE 2,
                   clearedStreak |-> h.clearedStreak]]
    /\ calls' = [calls EXCEPT ![p] = Idle]
    /\ returned' = NoReturn
    /\ UNCHANGED <<now, cooldownCfg, scope, ticks>>

\* clearCloudflareChallengeCooldown
ClearCall(p) ==
    /\ p \in scope.callers
    /\ UNCHANGED otherThanCooldown
    /\ calls[p].pc = "idle"
    /\ \E a \in scope.accounts :
         IF a <= 0
         THEN UNCHANGED <<challengeCooldowns, hist>>
         ELSE LET key == soraAccountProxyKey(a, "direct") IN
              /\ challengeCooldowns' = MapDelete(challengeCooldowns, key)
              /\ hist' = [hist EXCEPT ![key] =
                            [chain |-> 0, last |-> -1, sinceClear |-> 0,
                             clearedStreak |->
                                 IF key \in DOMAIN challengeCooldowns
                                 THEN IF challengeCooldowns[key].ConsecutiveChallenges > 1
                                      THEN 2 ELSE 1
                                 ELSE 0]]
    /\ returned' = NoReturn
    /\ UNCHANGED <<now, cooldownCfg, scope, calls, ticks>>

CNext ==
    \/ Tick
    \/ \E p \in Callers :
         \/ CheckCall(p)
         \/ CheckRead(p)
         \/ CheckDelete(p)
         \/ RecordCall(p)
         \/ RecordLocked(p)
         \/ ClearCall(p)

HIdle ==
    /\ HInit
    /\ cfg.nil
    /\ errorPassthroughService = {}
    /\ ~reqStream

(***************************************************************************)
(* IdentityService.GetOrCreateFingerprint                                  *)
(***************************************************************************)
\* a User-Agent string: its product and the x.y.z after the "/", << >> when
\* the string holds no "/x.y.z"
UA(product, version) == [product |-> product, version |-> version]
\* headers.Get("User-Agent") of a request without the header
NoUA == UA("", << >>)
\* defaultFingerprint.UserAgent, "claude-cli/2.1.2 (external, cli)"
DefaultUA == UA("claude-cli", <<2, 1, 2>>)
\* defaultFingerprint.StainlessOS
DefaultStainlessOS == "Linux"
UserAgents ==
    {NoUA, DefaultUA, UA("claude-cli", <<2, 1, 5>>), UA("claude-cli", <<2, 0, 9>>),
     UA("other-cli", <<3, 0, 0>>), UA("curl", << >>)}
StainlessOSHeaders == {"", "MacOS"}
Headers == [UserAgent : UserAgents, StainlessOS : StainlessOSHeaders]

\* userAgentVersionRegex.FindStringSubmatch and strconv.Atoi
parseUserAgentVersion(ua) ==
    IF ua.version = << >>
    THEN [major |-> 0, minor |-> 0, patch |-> 0, ok |-> FALSE]
    ELSE [major |-> ua.version[1], minor |-> ua.version[2], patch |-> ua.version[3],
          ok |-> TRUE]

\* whether newUA holds a version and it is after the version cachedUA holds
isNewerVersion(newUA, cachedUA) ==
    LET n == parseUserAgentVersion(newUA)
        c == parseUserAgentVersion(cachedUA)
    IN  IF ~n.ok \/ ~c.ok THEN FALSE
        ELSE IF n.major > c.major THEN TRUE
        ELSE IF n.major < c.major THEN FALSE
        ELSE IF n.minor > c.minor THEN TRUE
        ELSE IF n.minor < c.minor THEN FALSE
        ELSE n.patch > c.patch

getHeaderOrDefault(value, defaultValue) == IF value # "" THEN value ELSE defaultValue

\* nil *Fingerprint
NoFingerprint == [ClientID |-> 0, UserAgent |-> NoUA, StainlessOS |-> ""]
createFingerprintFromHeaders(headers) ==
    [ClientID |-> 0,
     UserAgent |-> IF headers.UserAgent # NoUA THEN headers.UserAgent ELSE DefaultUA,
     StainlessOS |-> getHeaderOrDefault(headers.StainlessOS, DefaultStainlessOS)]

\* versions as <<major, minor, patch>>; << >> stands for no version
VersionLess(a, b) ==
    \/ a[1] < b[1]
    \/ a[1] = b[1] /\ a[2] < b[2]
    \/ a[1] = b[1] /\ a[2] = b[2] /\ a[3] < b[3]
VersionMax(a, b) ==
    IF a = << >> THEN b
    ELSE IF b = << >> THEN a
    ELSE IF VersionLess(a, b) THEN b ELSE a

FpIdle == [pc |-> "idle", headers |-> [UserAgent |-> NoUA, StainlessOS |-> ""],
           fp |-> NoFingerprint, floor |-> << >>]
FpNoReturn == [op |-> "none", headers |-> FpIdle.headers, fp |-> NoFingerprint,
               floor |-> << >>]
FpReturn(headers, fp, floor) ==
    [op |-> "call", headers |-> headers, fp |-> fp, floor |-> floor]
FpNoHist ==
    [started |-> 0, created |-> 0, returnedMax |-> << >>, presentedMax |-> << >>,
     faulted |-> FALSE, unversioned |-> FALSE, firstClientID |-> 0]

FInitWith(callers) ==
    /\ fpCache = NoFingerprint
    /\ fpCalls = [p \in callers |-> FpIdle]
    /\ fpReturned = FpNoReturn
    /\ fpHist = FpNoHist

FInit == FInitWith(Callers)
FIdle == FInitWith({})

\* the history after a call has presented these headers and worked on fp
FpPresented(h, headers, fp, fault) ==
    [h EXCEPT !.presentedMax = VersionMax(VersionMax(@, headers.UserAgent.version),
                                          fp.UserAgent.version),
              !.unversioned = @ \/ fp.UserAgent.version = << >>
                                \/ (headers.UserAgent # NoUA
                                     /\ headers.UserAgent.version = << >>),
              !.faulted = @ \/ fault]
FpReturnedVersion(h, fp) ==
    [h EXCEPT !.returnedMax = VersionMax(@, fp.UserAgent.version),
              !.firstClientID = IF @ = 0 THEN fp.ClientID ELSE @]

\* GetOrCreateFingerprint from s.cache.GetFingerprint up to s.cache.SetFingerprint,
\* or to the return of a cached fingerprint that needs no update
GetFingerprint(p) ==
    /\ p \in DOMAIN fpCalls
    /\ UNCHANGED otherThanIdentity
    /\ fpCalls[p].pc = "idle"
    /\ fpHist.started < MaxFingerprintCalls
    /\ \E headers \in Headers, getErr \in BOOLEAN :
         LET cached == fpCache
             clientUA == headers.UserAgent
             h == [fpHist EXCEPT !.started = @ + 1]
         IN
         IF ~getErr /\ cached # NoFingerprint
         THEN IF clientUA # NoUA /\ isNewerVersion(clientUA, cached.UserAgent)
              THEN /\ fpCalls' = [fpCalls EXCEPT ![p] =
                                     [pc |-> "update", headers |-> headers,
                                      fp |-> [cached EXCEPT !.UserAgent = clientUA],
                                      floor |-> fpHist.returnedMax]]
                   /\ fpHist' = FpPresented(h, headers, cached, FALSE)
                   /\ fpReturned' = FpNoReturn
              ELSE /\ fpReturned' = FpReturn(headers, cached, fpHist.returnedMax)
                   /\ fpHist' = FpReturnedVersion(FpPresented(h, headers, cached, FALSE),
                                                  cached)
                   /\ UNCHANGED fpCalls
         ELSE /\ fpCalls' = [fpCalls EXCEPT ![p] =
                                [pc |-> "create", headers |-> headers,
                                 fp |-> [createFingerprintFromHeaders(headers)
                                           EXCEPT !.ClientID = fpHist.created + 1],
                                 floor |-> fpHist.returnedMax]]
              /\ fpHist' = [FpPresented(h, headers, createFingerprintFromHeaders(headers),
                                        getErr)
                              EXCEPT !.created = @ + 1]
              /\ fpReturned' = FpNoReturn
    /\ UNCHANGED fpCache

\* s.cache.SetFingerprint and the return of the fingerprint
SetFingerprint(p) ==
    /\ p \in DOMAIN fpCalls
    /\ UNCHANGED otherThanIdentity
    /\ fpCalls[p].pc \in {"update", "create"}
    /\ \E setErr \in BOOLEAN :
         /\ fpCache' = IF setErr THEN fpCache ELSE fpCalls[p].fp
         /\ fpHist' = [FpReturnedVersion(fpHist, fpCalls[p].fp)
                         EXCEPT !.faulted = @ \/ setErr]
    /\ fpReturned' = FpReturn(fpCalls[p].headers, fpCalls[p].fp, fpCalls[p].floor)
    /\ fpCalls' = [fpCalls EXCEPT ![p] = FpIdle]

FNext == \E p \in Callers : GetFingerprint(p) \/ SetFingerprint(p)

(***************************************************************************)
(* SoraSDKClient: the access token of one account                          *)
(***************************************************************************)
\* 2*time.Minute, in minutes
ExpiryMargin == 2
\* GetCredentialAsTime: nil; an empty expiresAt string
NoTime == -1
\* openaioauth.SoraClientID and openaioauth.ClientID
SoraClientID == "sora-client-id"
ClientID == "generic-client-id"

\* strings.TrimSpace on the strings of the model
TrimSpace(s) ==
    CASE s = " " -> ""
      [] s = " at-provider " -> "at-provider"
      [] OTHER -> s

\* account.GetCredentialAsTime("expires_at")
GetCredentialAsTime(expiresAt) == expiresAt

FullTokenCfg ==
    [accountNil |-> FALSE, accountID |-> 1, tokenProvider |-> TRUE,
     UseOpenAITokenProvider |-> TRUE, accountRepo |-> TRUE, soraAccountRepo |-> TRUE]
\* the client and the account getAccessToken is called with
TokenCfgValues ==
    {FullTokenCfg,
     [FullTokenCfg EXCEPT !.tokenProvider = FALSE],
     [FullTokenCfg EXCEPT !.UseOpenAITokenProvider = FALSE, !.accountRepo = FALSE],
     [FullTokenCfg EXCEPT !.UseOpenAITokenProvider = FALSE, !.soraAccountRepo = FALSE],
     [FullTokenCfg EXCEPT !.UseOpenAITokenProvider = FALSE, !.accountID = 0],
     [FullTokenCfg EXCEPT !.accountNil = TRUE]}

NoCredentials ==
    [access_token |-> "", expires_at |-> NoTime, session_token |-> "",
     refresh_token |-> "", client_id |-> ""]
\* account.Credentials as loaded
CredentialValues ==
    [access_token : {"", " ", "at-0"}, expires_at : {NoTime, 0, 2, 3},
     session_token : {"", "st-0"}, refresh_token : {"", "rt-0"},
     client_id : {"", "custom-client-id", SoraClientID}]

\* what c.tokenProvider.GetAccessToken may return
ProviderResults ==
    {[token |-> "", err |-> "token provider failed"],
     [token |-> " ", err |-> ""],
     [token |-> " at-provider ", err |-> ""]}
\* what exchangeSessionToken may return at time t in call n
SessionResults(t, n) ==
    {[accessToken |-> "", expiresAt |-> NoTime, err |-> "session exchange failed"],
     [accessToken |-> "at-session-" \o ToString(n), expiresAt |-> NoTime, err |-> ""],
     [accessToken |-> "at-session-" \o ToString(n), expiresAt |-> t + 3, err |-> ""]}
\* what sdkClient.RefreshAccessToken may return in call n
RefreshResults(n) ==
    {[newAccess |-> "", newRefresh |-> "", err |-> "refresh failed"],
     [newAccess |-> " ", newRefresh |-> "rt-" \o ToString(n), err |-> ""],
     [newAccess |-> "at-refresh-" \o ToString(n), newRefresh |-> "", err |-> ""],
     [newAccess |-> "at-refresh-" \o ToString(n), newRefresh |-> "rt-" \o ToString(n),
      err |-> ""]}

allowOpenAITokenProvider(config) ==
    config.tokenProvider /\ config.UseOpenAITokenProvider

expiring_Always(expiresAt, t) == TRUE

\* expiresAt != nil && time.Until(*expiresAt) <= 2*time.Minute
expiring(expiresAt, t) == expiresAt # NoTime /\ expiresAt - t <= ExpiryMargin

\* the candidate client ids of the refresh, in the order they are tried
clientIDs(creds) == <<TrimSpace(creds.client_id), SoraClientID, ClientID>>

nextClientID_IgnoresTried(ids, from, tried) ==
    LET c == {i \in from..Len(ids) : ids[i] # ""}
    IN  IF c = {} THEN 0 ELSE CHOOSE i \in c : \A j \in c : i <= j

\* the next candidate at or after position from that is not empty and not tried (0: none)
nextClientID(ids, from, tried) ==
    LET c == {i \in from..Len(ids) : ids[i] # "" /\ ids[i] \notin tried}
    IN  IF c = {} THEN 0 ELSE CHOOSE i \in c : \A j \in c : i <= j

NoUpdates == [k \in {} |-> ""]
\* a call made on behalf of getAccessToken
LogEntry(call, arg, updates, ok) ==
    [call |-> call, arg |-> arg, updates |-> updates, ok |-> ok]

\* the updates map of updateSoraAccountExtension
soraUpdates(accessToken, refreshToken, sessionToken) ==
    LET keys == (IF TrimSpace(accessToken) # "" /\ TrimSpace(refreshToken) # ""
                 THEN {"access_token", "refresh_token"} ELSE {})
                \cup (IF TrimSpace(sessionToken) # "" THEN {"session_token"} ELSE {})
    IN  [k \in keys |-> CASE k = "access_token" -> accessToken
                          [] k = "refresh_token" -> refreshToken
                          [] OTHER -> sessionToken]

\* the Upsert call (if any) and the extension row after it
updateSoraAccountExtension(config, ext, accessToken, refreshToken, sessionToken, upsertErr) ==
    LET updates == soraUpdates(accessToken, refreshToken, sessionToken)
    IN  IF ~config.soraAccountRepo \/ config.accountNil \/ config.accountID <= 0
           \/ DOMAIN updates = {}
        THEN [log |-> << >>, ext |-> ext]
        ELSE [log |-> <<LogEntry("soraAccountRepo.Upsert", "", updates, ~upsertErr)>>,
              ext |-> IF upsertErr
                      THEN ext
                      ELSE [k \in DOMAIN ext \cup DOMAIN updates |->
                                IF k \in DOMAIN updates THEN updates[k] ELSE ext[k]]]

applyRecoveredToken_StopsOnUpdateError(config, creds, row, ext, accessToken, refreshToken, expiresAt, sessionToken, updateErr, upsertErr) ==
    LET creds2 == [creds EXCEPT !.access_token = accessToken]
    IN  IF config.accountRepo /\ updateErr
        THEN [credentials |-> creds2,
              log |-> <<LogEntry("accountRepo.Update", creds2.access_token, NoUpdates, FALSE)>>,
              row |-> row, ext |-> ext]
        ELSE LET x == updateSoraAccountExtension(config, ext, accessToken, refreshToken,
                                                 sessionToken, upsertErr)
             IN  [credentials |-> creds2,
                  log |-> (IF config.accountRepo
                           THEN <<LogEntry("accountRepo.Update", creds2.access_token,
                                           NoUpdates, TRUE)>>
                           ELSE << >>) \o x.log,
                  row |-> IF config.accountRepo THEN creds2 ELSE row, ext |-> x.ext]

\* the credentials after the recovery, the repository calls made and the rows after them
applyRecoveredToken(config, creds, row, ext, accessToken, refreshToken, expiresAt, sessionToken, updateErr, upsertErr) ==
    LET c1 == IF TrimSpace(accessToken) # ""
              THEN [creds EXCEPT !.access_token = accessToken] ELSE creds
        c2 == IF TrimSpace(refreshToken) # ""
              THEN [c1 EXCEPT !.refresh_token = refreshToken] ELSE c1
        c3 == IF expiresAt # NoTime THEN [c2 EXCEPT !.expires_at = expiresAt] ELSE c2
        c4 == IF TrimSpace(sessionToken) # ""
              THEN [c3 EXCEPT !.session_token = sessionToken] ELSE c3
        x == updateSoraAccountExtension(config, ext, accessToken, refreshToken,
                                        sessionToken, upsertErr)
    IN  [credentials |-> c4,
         log |-> (IF config.accountRepo
                  THEN <<LogEntry("accountRepo.Update", c4.access_token, NoUpdates,
                                  ~updateErr)>>
                  ELSE << >>) \o x.log,
         row |-> IF config.accountRepo /\ ~updateErr THEN c4 ELSE row,
         ext |-> x.ext]

afterRecover_ErrorOnFailure(l, recovered, recoverErr) ==
    IF recoverErr = "" /\ TrimSpace(recovered) # ""
    THEN <<recovered, "">>
    ELSE <<"", recoverErr>>

\* getAccessToken once recoverAccessToken has returned: <<token, error>>
afterRecover(l, recovered, recoverErr) ==
    IF recoverErr = "" /\ TrimSpace(recovered) # ""
    THEN <<recovered, "">>
    ELSE IF l.token # ""
    THEN <<l.token, "">>
    ELSE IF l.providerErr # ""
    THEN <<"", l.providerErr>>
    ELSE <<"", "access_token not found">>

TmIdleLocals ==
    [reason |-> "", providerErr |-> "", token |-> "", stored |-> "", expiresAt |-> NoTime,
     idx |-> 0, tried |-> {}, lastErr |-> ""]
TmNoReturn ==
    [op |-> "none", token |-> "", err |-> "", recovered |-> "", recoverErr |-> "",
     stored |-> "", expiresAt |-> NoTime, now |-> 0]

TInitWith(configs, credentialValues) ==
    /\ tmCfg \in configs
    /\ credentials \in IF tmCfg.accountNil THEN {NoCredentials} ELSE credentialValues
    /\ accountRepoRow = credentials
    /\ soraAccountRow = NoUpdates
    /\ wall = 0
    /\ tmCalls = 0
    /\ tmPc = "idle"
    /\ tmLocals = TmIdleLocals
    /\ tmLog = << >>
    /\ tmReturned = TmNoReturn

TInit == TInitWith(TokenCfgValues, CredentialValues)
TIdle == TInitWith({[FullTokenCfg EXCEPT !.accountNil = TRUE]}, {NoCredentials})

\* getAccessToken returns
TmReturn(l, token, err, recovered, recoverErr) ==
    /\ tmReturned' = [op |-> "getAccessToken", token |-> token, err |-> err,
                      recovered |-> recovered, recoverErr |-> recoverErr,
                      stored |-> l.stored, expiresAt |-> l.expiresAt, now |-> wall]
    /\ tmPc' = "idle"
    /\ tmLocals' = TmIdleLocals

\* recoverAccessToken returns to getAccessToken, which returns
RecoverReturn(l, recovered, recoverErr) ==
    LET r == afterRecover(l, recovered, recoverErr)
    IN  TmReturn(l, r[1], r[2], recovered, recoverErr)

\* getAccessToken up to its return or its call of recoverAccessToken
GetAccessToken ==
    /\ tmPc = "idle"
    /\ tmCalls < MaxTokenCalls
    /\ tmCalls' = tmCalls + 1
    /\ UNCHANGED otherThanToken
    /\ UNCHANGED <<tmCfg, credentials, accountRepoRow, soraAccountRow, wall>>
    /\ IF tmCfg.accountNil
       THEN /\ tmLog' = << >>
            /\ TmReturn(TmIdleLocals, "", "account is nil", "", "")
       ELSE LET allow == allowOpenAITokenProvider(tmCfg)
            IN  \E prov \in IF allow THEN ProviderResults ELSE {[token |-> "", err |-> ""]} :
                  LET log0 == IF allow
                              THEN <<LogEntry("tokenProvider.GetAccessToken", prov.token,
                                              NoUpdates, prov.err = "")>>
                              ELSE << >>
                      token == TrimSpace(credentials.access_token)
                      expiresAt == GetCredentialAsTime(credentials.expires_at)
                      l == [TmIdleLocals EXCEPT !.providerErr = prov.err,
                                                !.token = token,
                                                !.stored = credentials.access_token,
                                                !.expiresAt = expiresAt]
                  IN  IF allow /\ prov.err = "" /\ TrimSpace(prov.token) # ""
                      THEN /\ tmLog' = log0
                           /\ TmReturn(l, prov.token, "", "", "")
                      ELSE IF token # "" /\ ~expiring(expiresAt, wall)
                      THEN /\ tmLog' = log0
                           /\ TmReturn(l, token, "", "", "")
                      ELSE /\ tmLog' = Append(log0,
                                  LogEntry("recoverAccessToken",
                                           IF token # "" THEN "access_token_expiring"
                                                         ELSE "access_token_missing",
                                           NoUpdates, TRUE))
                           /\ tmPc' = "recover"
                           /\ tmLocals' = [l EXCEPT !.reason =
                                  IF token # "" THEN "access_token_expiring"
                                                ELSE "access_token_missing"]
                           /\ tmReturned' = TmNoReturn

\* a recovery call produced accessToken: applyRecoveredToken, then the returns
Recovered(entry, accessToken, refreshToken, expiresAt, sessionToken) ==
    \E updateErr \in BOOLEAN, upsertErr \in BOOLEAN :
        LET a == applyRecoveredToken(tmCfg, credentials, accountRepoRow, soraAccountRow,
                                     accessToken, refreshToken, expiresAt, sessionToken,
                                     updateErr, upsertErr)
        IN  /\ credentials' = a.credentials
            /\ accountRepoRow' = a.row
            /\ soraAccountRow' = a.ext
            /\ tmLog' = Append(tmLog, entry) \o a.log
            /\ RecoverReturn(tmLocals, accessToken, "")

\* recoverAccessToken from the refresh_token check to the first RefreshAccessToken call
ToRefresh(log) ==
    /\ UNCHANGED <<credentials, accountRepoRow, soraAccountRow>>
    /\ IF TrimSpace(credentials.refresh_token) = ""
       THEN /\ tmLog' = log
            /\ RecoverReturn(tmLocals, "", "session_token/refresh_token not found")
       ELSE \/ \* getSDKClient fails
               /\ tmLog' = Append(log, LogEntry("getSDKClient", "", NoUpdates, FALSE))
               /\ RecoverReturn(tmLocals, "", "sora.New failed")
            \/ /\ tmLog' = Append(log, LogEntry("getSDKClient", "", NoUpdates, TRUE))
               /\ tmPc' = "refresh"
               /\ tmLocals' = [tmLocals EXCEPT !.idx = 1]
               /\ UNCHANGED tmReturned

\* recoverAccessToken: the session_token exchange
ExchangeSession ==
    /\ tmPc = "recover"
    /\ UNCHANGED otherThanToken
    /\ UNCHANGED <<tmCfg, wall, tmCalls>>
    /\ LET sessionToken == TrimSpace(credentials.session_token)
       IN  IF sessionToken # ""
           THEN \E res \in SessionResults(wall, tmCalls) :
                  LET e == LogEntry("exchangeSessionToken", sessionToken, NoUpdates,
                                    res.err = "")
                  IN  IF res.err = "" /\ TrimSpace(res.accessToken) # ""
                      THEN Recovered(e, res.accessToken, "", res.expiresAt, sessionToken)
                      ELSE ToRefresh(Append(tmLog, e))
           ELSE ToRefresh(tmLog)

\* recoverAccessToken: one RefreshAccessToken call of the client id loop
RefreshAccessToken ==
    /\ tmPc = "refresh"
    /\ UNCHANGED otherThanToken
    /\ UNCHANGED <<tmCfg, wall, tmCalls>>
    /\ LET ids == clientIDs(credentials)
           i == nextClientID(ids, tmLocals.idx, tmLocals.tried)
       IN  /\ i # 0
           /\ \E res \in RefreshResults(tmCalls) :
                LET ok == res.err = "" /\ TrimSpace(res.newAccess) # ""
                    e == LogEntry("RefreshAccessToken", ids[i], NoUpdates, ok)
                    lastErr == IF res.err # "" THEN res.err
                               ELSE "refreshed access_token is empty"
                    tried == tmLocals.tried \cup {ids[i]}
                IN  IF ok
                    THEN Recovered(e, res.newAccess, res.newRefresh, NoTime, "")
                    ELSE /\ UNCHANGED <<credentials, accountRepoRow, soraAccountRow>>
                         /\ tmLog' = Append(tmLog, e)
                         /\ IF nextClientID(ids, i + 1, tried) = 0
                            THEN RecoverReturn(tmLocals, "", lastErr)
                            ELSE /\ tmLocals' = [tmLocals EXCEPT !.idx = i + 1,
                                                                 !.tried = tried,
                                                                 !.lastErr = lastErr]
                                 /\ UNCHANGED <<tmPc, tmReturned>>

\* time passes between two calls
TokenTick ==
    /\ tmPc = "idle"
    /\ wall < MaxTokenTicks
    /\ wall' = wall + 1
    /\ UNCHANGED otherThanToken
    /\ UNCHANGED <<tmCfg, credentials, accountRepoRow, soraAccountRow, tmCalls, tmPc,
                   tmLocals, tmLog, tmReturned>>

TNext == GetAccessToken \/ ExchangeSession \/ RefreshAccessToken \/ TokenTick

(***************************************************************************)
(* Strings                                                                 *)
(*                                                                         *)
(* A string the proxy key functions work on is a sequence of lexemes:      *)
(* words of letters and digits, and the single characters ":", "/", "[",   *)
(* "]", " ".  "%zz" is an escape net/url rejects.                          *)
(***************************************************************************)
\* words that start with a letter
AlphaWords == {"http", "HTTP", "https", "socks5", "proxy", "direct", "host", "HOST", "db8"}
\* words of digits only
DigitWords == {"80", "443", "8080", "2001"}

\* strings.ToLower, lexeme by lexeme
ToLowerWord(w) == IF w = "HTTP" THEN "http" ELSE IF w = "HOST" THEN "host" ELSE w
ToLower(s) == [i \in DOMAIN s |-> ToLowerWord(s[i])]

RECURSIVE TrimLeft(_)
TrimLeft(s) == IF s # << >> /\ Head(s) = " " THEN TrimLeft(Tail(s)) ELSE s
RECURSIVE TrimRight(_)
TrimRight(s) ==
    IF s # << >> /\ s[Len(s)] = " " THEN TrimRight(SubSeq(s, 1, Len(s) - 1)) ELSE s
\* strings.TrimSpace
TrimSpaceString(s) == TrimRight(TrimLeft(s))

\* strings.Index / strings.LastIndex of one lexeme, 0 when absent
IndexOfLexeme(s, c) ==
    IF \E i \in DOMAIN s : s[i] = c THEN CHOOSE i \in DOMAIN s : s[i] = c /\ \A j \in 1..(i - 1) : s[j] # c
    ELSE 0
LastIndexOfLexeme(s, c) ==
    IF \E i \in DOMAIN s : s[i] = c THEN CHOOSE i \in DOMAIN s : s[i] = c /\ \A j \in (i + 1)..Len(s) : s[j] # c
    ELSE 0
From(s, i) == SubSeq(s, i, Len(s))

(***************************************************************************)
(* net/url, as far as normalizeSoraProxyKey uses it                        *)
(***************************************************************************)
\* toolchains the service can be built with: from Go 1.26 on url.Parse rejects
\* a host with colons outside brackets ("http://::1/"), earlier releases (and
\* GODEBUG=urlstrictcolons=0) accept it
Builds == {[strictColons |-> FALSE], [strictColons |-> TRUE]}

URLError == [err |-> TRUE, Scheme |-> "", Host |-> << >>]
URLOk(scheme, host) == [err |-> FALSE, Scheme |-> scheme, Host |-> host]

\* validOptionalPort: empty, or ":" followed by digits only
validOptionalPort(port) ==
    \/ port = << >>
    \/ port = <<":">>
    \/ Len(port) = 2 /\ port[1] = ":" /\ port[2] \in DigitWords

\* parseHost: the host[:port] of an authority
parseHost(build, host) ==
    IF \E i \in DOMAIN host : host[i] \in {" ", "%zz"} THEN URLError
    ELSE IF host # << >> /\ Head(host) = "["
    THEN LET i == LastIndexOfLexeme(host, "]") IN
         IF i = 0 \/ ~validOptionalPort(From(host, i + 1)) THEN URLError
         ELSE URLOk("", host)
    ELSE LET i == LastIndexOfLexeme(host, ":") IN
         IF i # 0 /\ ~validOptionalPort(From(host, i)) THEN URLError
         ELSE IF build.strictColons /\ Cardinality({j \in DOMAIN host : host[j] = ":"}) > 1
         THEN URLError
         ELSE URLOk("", host)

\* url.Parse
urlParse(build, rawURL) ==
    LET hasScheme == Len(rawURL) >= 2 /\ rawURL[1] \in AlphaWords /\ rawURL[2] = ":"
        scheme == IF hasScheme THEN ToLowerWord(rawURL[1]) ELSE ""
        rest == IF hasScheme THEN From(rawURL, 3) ELSE rawURL
        slash == IndexOfLexeme(rest, "/")
        colon == IndexOfLexeme(rest, ":")
        doubleSlash == Len(rest) >= 2 /\ rest[1] = "/" /\ rest[2] = "/"
        tripleSlash == doubleSlash /\ Len(rest) >= 3 /\ rest[3] = "/"
        afterSlashes == From(rest, 3)
        next == IndexOfLexeme(afterSlashes, "/")
        authority == IF next = 0 THEN afterSlashes ELSE SubSeq(afterSlashes, 1, next - 1)
        parsed == parseHost(build, authority)
    IN  IF rawURL # << >> /\ Head(rawURL) = ":" THEN URLError
        ELSE IF rest = << >> \/ Head(rest) # "/"
        THEN IF scheme # "" THEN URLOk(scheme, << >>)
             ELSE IF colon # 0 /\ (slash = 0 \/ colon < slash) THEN URLError
             ELSE IF \E i \in DOMAIN rest : rest[i] = "%zz" THEN URLError
             ELSE URLOk(scheme, << >>)
        ELSE IF doubleSlash /\ (scheme # "" \/ ~tripleSlash)
        THEN IF parsed.err THEN URLError ELSE URLOk(scheme, parsed.Host)
        ELSE URLOk(scheme, << >>)

\* splitHostPort: <<host, port>> of URL.Host
splitHostPort(hostPort) ==
    LET colon == LastIndexOfLexeme(hostPort, ":")
        split == colon # 0 /\ validOptionalPort(From(hostPort, colon))
        host == IF split THEN SubSeq(hostPort, 1, colon - 1) ELSE hostPort
        port == IF split THEN From(hostPort, colon + 1) ELSE << >>
    IN  <<IF host # << >> /\ Head(host) = "[" /\ host[Len(host)] = "]"
          THEN SubSeq(host, 2, Len(host) - 1)
          ELSE host,
          port>>
\* URL.Hostname, URL.Port
Hostname(u) == splitHostPort(u.Host)[1]
Port(u) == splitHostPort(u.Host)[2]

normalizeSoraProxyKey(build, proxyURL) ==
    LET raw == TrimSpaceString(proxyURL)
        parsed == urlParse(build, raw)
        scheme == parsed.Scheme
        host == ToLower(TrimSpaceString(Hostname(parsed)))
        parsedPort == TrimSpaceString(Port(parsed))
        port == IF \/ scheme = "http" /\ parsedPort = <<"80">>
                   \/ scheme = "https" /\ parsedPort = <<"443">>
                THEN << >> ELSE parsedPort
    IN  IF raw = << >> THEN <<"direct">>
        ELSE IF parsed.err \/ host = << >> THEN ToLower(raw)
        ELSE <<IF scheme = "" THEN "proxy" ELSE scheme, ":", "/", "/">>
             \o (IF port # << >> THEN host \o <<":">> \o port ELSE host)

\* proxy URLs: [space] [scheme ":"] ["//"] [host] [":" port] ["/" path] [space]
ProxyURLParts ==
    [lead : {<< >>, <<" ">>},
     scheme : {<< >>, <<"http", ":">>, <<"HTTP", ":">>, <<"https", ":">>, <<"socks5", ":">>},
     slashes : {<< >>, <<"/", "/">>},
     host : {<< >>, <<"host">>, <<"HOST">>, <<"2001">>, <<"%zz">>,
             <<"[", "2001", ":", ":", "443", "]">>,
             <<"[", "2001", ":", ":", "80", "]">>,
             <<"[", ":", ":", "db8", "]">>},
     port : {<< >>, <<":">>, <<":", "80">>, <<":", "443">>, <<":", "8080">>, <<":", "host">>},
     path : {<< >>, <<"/", "host">>},
     trail : {<< >>, <<" ">>}]
ProxyURL(x) == x.lead \o x.scheme \o x.slashes \o x.host \o x.port \o x.path \o x.trail

(***************************************************************************)
(* readUpstreamResponseBodyLimited                                         *)
(***************************************************************************)
\* defaultUpstreamResponseReadMaxBytes: 8 * 1024 * 1024
DefaultUpstreamResponseReadMaxBytes == 8388608
\* a body is the number of bytes of the reader's stream it holds; nil is no body
NilBody == -1
\* a reader: nil, or a stream of size bytes that ends with io.EOF or with an error
NilReader == [nil |-> TRUE, size |-> 0, fails |-> FALSE]
Reader(size, fails) == [nil |-> FALSE, size |-> size, fails |-> fails]

\* n > x for an integer n >= 0 and an int64 x
IntGreaterThanInt64(n, x) == Int64Negative(x) \/ ~(GreaterInt64(x, n) \/ x = Int64Of(n))

\* io.ReadAll(io.LimitReader(reader, n)): a limit of n <= 0 reads nothing, and a
\* stream longer than the limit is cut before its end is seen
ReadAllLimited(reader, n) ==
    IF ~GreaterInt64(n, 0) THEN [body |-> 0, err |-> ""]
    ELSE IF GreaterInt64(n, reader.size) THEN [body |-> reader.size,
                                               err |-> IF reader.fails THEN "read error" ELSE ""]
    ELSE [body |-> IntOf(n), err |-> ""]

readUpstreamResponseBodyLimited(reader, maxBytes) ==
    LET limit == IF ~GreaterInt64(maxBytes, 0)
                 THEN Int64Of(DefaultUpstreamResponseReadMaxBytes)
                 ELSE maxBytes
        read == ReadAllLimited(reader, AddInt64(limit, 1))
    IN  IF reader.nil THEN [body |-> NilBody, err |-> "response body is nil"]
        ELSE IF read.err # "" THEN [body |-> NilBody, err |-> read.err]
        ELSE IF IntGreaterThanInt64(read.body, limit)
        THEN [body |-> NilBody, err |-> "upstream response body too large"]
        ELSE read

\* streams around the limits, and limits around zero, the default and the
\* largest int64
ReaderSizes == {0, 1, 2, 3, 4, DefaultUpstreamResponseReadMaxBytes,
                DefaultUpstreamResponseReadMaxBytes + 1}
Readers == {NilReader} \cup {Reader(n, f) : n \in ReaderSizes, f \in BOOLEAN}
ReadLimits ==
    {Int64Of(n) : n \in {-1, 0, 1, 2, 3, DefaultUpstreamResponseReadMaxBytes}}
    \cup {MaxInt64, AddInt64(MaxInt64, 1), <<LimbBase - 2, LimbBase - 1, LimbBase - 1, LimbBase \div 2 - 1>>}
ReadLimitedArgs == [reader : Readers, maxBytes : ReadLimits]

(***************************************************************************)
(* IdentityService.RewriteUserID                                           *)
(***************************************************************************)
Bytes == 0..255
\* sha256.Sum256(seed): bytes 6 and 8 of the digest are what the oracle gives for
\* the seed; the other bytes stand for the seed itself (no collisions)
Sha256(oracle, seed) == [other |-> seed, byte6 |-> oracle[seed][1], byte8 |-> oracle[seed][2]]

generateUUIDFromSeed_NoVersionBits(oracle, seed) == Sha256(oracle, seed)
\* the 16 bytes the "%x-%x-%x-%x-%x" string prints, with
\* bytes[6] = (bytes[6] & 0x0f) | 0x40 and bytes[8] = (bytes[8] & 0x3f) | 0x80
generateUUIDFromSeed(oracle, seed) ==
    LET hash == Sha256(oracle, seed) IN
    [hash EXCEPT !.byte6 = (hash.byte6 % 16) + 64, !.byte8 = (hash.byte8 % 64) + 128]

\* 64 lowercase hex digits, and strings that are not
Hex64 == {"64hex-a", "64hex-b"}
ClientIDStrings == Hex64 \cup {"64HEX-UPPER"}
\* 36 characters of [a-f0-9-], and strings that are not
Session36 == {"session-1", "session-2"}
SessionStrings == Session36 \cup {"35chars"}
AccountUUIDs == {"", "account-uuid-1", "account-uuid-2"}

\* "user_%s_account_%s_session_%s"
UserID(client, accountUUID, session) ==
    <<"user_", client, "_account_", accountUUID, "_session_", session>>
\* userIDRegex: ^user_[a-f0-9]{64}_account__session_([a-f0-9-]{36})$
userIDRegexMatches(userID) ==
    /\ Len(userID) = 6
    /\ userID[1] = "user_" /\ userID[2] \in Hex64
    /\ userID[3] = "_account_" /\ userID[4] = ""
    /\ userID[5] = "_session_" /\ userID[6] \in Session36

\* request bodies: empty, not JSON, or an object with the rest of its fields
\* and metadata (absent, not an object, or an object whose user_id is absent,
\* not a string, or a string)
NoUserID == <<"absent">>
NonStringUserID == <<"number">>
EmptyBody == [kind |-> "empty", rest |-> "", metadata |-> "absent", user_id |-> NoUserID]
BodyObject(rest, metadata, userID) ==
    [kind |-> "object", rest |-> rest, metadata |-> metadata, user_id |-> userID]
IncomingUserIDs ==
    {NoUserID, NonStringUserID, << >>}
    \cup {UserID(c, a, s) : c \in ClientIDStrings, a \in {"", "account-uuid-1"}, s \in SessionStrings}
Bodies ==
    {EmptyBody, [EmptyBody EXCEPT !.kind = "invalid json"]}
    \cup {BodyObject(r, m, NoUserID) : r \in {"rest-1", "rest-2"}, m \in {"absent", "string"}}
    \cup {BodyObject(r, "object", u) : r \in {"rest-1", "rest-2"}, u \in IncomingUserIDs}

RewriteUserID(oracle, body, accountID, accountUUID, cachedClientID) ==
    IF \/ body.kind # "object" \/ accountUUID = "" \/ cachedClientID = ""
       \/ body.metadata # "object"
       \/ body.user_id \in {NoUserID, NonStringUserID, << >>}
       \/ ~userIDRegexMatches(body.user_id)
    THEN body
    ELSE LET sessionTail == body.user_id[6]
             seed == <<accountID, sessionTail>>
             newSessionHash == generateUUIDFromSeed(oracle, seed)
         IN  [body EXCEPT !.user_id = UserID(cachedClientID, accountUUID, newSessionHash)]

\* arguments: the digest bytes of each seed, and two calls for one account id
RewriteAccountIDs == {1, 2}
Seeds == RewriteAccountIDs \X SessionStrings
Oracles == {[s \in Seeds |-> <<0, 255>>],
            [s \in Seeds |-> IF s[1] = 1 THEN <<79, 128>> ELSE <<255, 0>>]}
CachedClientIDs == {"", "64hex-c", "64hex-d"}
RewriteCalls == [body : Bodies, accountUUID : AccountUUIDs, cachedClientID : CachedClientIDs]
\* calls that get as far as the rewrite
RewritingCalls ==
    {[body |-> BodyObject(r, "object", UserID(c, "", s)), accountUUID |-> u,
      cachedClientID |-> k] :
        r \in {"rest-1", "rest-2"}, c \in Hex64, s \in Session36,
        u \in AccountUUIDs \ {""}, k \in CachedClientIDs \ {""}}
RewriteArgs ==
    [oracle : Oracles, accountID : RewriteAccountIDs, first : RewriteCalls,
     second : RewritingCalls]
UUIDArgs == [seed : {<<1, "session-1">>}, byte6 : Bytes, byte8 : Bytes]

(***************************************************************************)
(* SoraDirectClient.sidecarSessionKey                                      *)
(***************************************************************************)
\* 365 * 24 * time.Hour, in seconds
OneYearSeconds == 31536000
MaxSidecarTicks == 2
\* the clock advances by a second or by a year
SidecarTickSteps == {1, OneYearSeconds}
\* the client: nil, or its configuration (reuse switch, sidecar_session_ttl_seconds)
SidecarCfgValues ==
    {[nil |-> TRUE, reuse |-> FALSE, ttl |-> 0], [nil |-> FALSE, reuse |-> FALSE, ttl |-> 2]}
    \cup {[nil |-> FALSE, reuse |-> TRUE, ttl |-> n] : n \in {0, 2}}
\* account.ID of a call; 0 stands for a nil account or a non-positive id
SidecarAccountIDs == {0, 1}
\* proxy URLs of a call: none, and two spellings of one proxy
SidecarProxyURLs == {<< >>, <<"http", ":", "/", "/", "host">>,
                     <<"HTTP", ":", "/", "/", "host", ":", "80">>}

\* c.sidecarSessionReuseEnabled()
sidecarSessionReuseEnabled(config) == config.reuse
\* c.sidecarSessionTTLSeconds()
sidecarSessionTTLSeconds(config) == config.ttl

\* "sora-" + uuid.NewString(): the n-th uuid drawn
SidecarSessionKeyOf(n) == "sora-" \o ToString(n)
SidecarIdle == [pc |-> "idle", key |-> <<0, << >> >>, now |-> 0, ttlSeconds |-> 0]
SidecarNoReturn == [op |-> "none", key |-> <<0, << >> >>, now |-> 0, session |-> ""]

cleanupExpiredSidecarSessionsLocked_KeepsExpired(m, t) == m
\* deletes every entry with !entry.ExpiresAt.After(now)
cleanupExpiredSidecarSessionsLocked(m, t) ==
    [k \in {x \in DOMAIN m : m[x].ExpiresAt > t} |-> m[k]]

SInitWith(configs) ==
    /\ sidecarCfg \in configs
    /\ sidecarClock = 0
    /\ sidecarSessions = << >>
    /\ sidecarCalls = [p \in Callers |-> SidecarIdle]
    /\ sidecarSeq = 0
    /\ sidecarReturned = SidecarNoReturn
    /\ sidecarTicks = 0
SInit == SInitWith(SidecarCfgValues)
SIdle == SInitWith({[nil |-> TRUE, reuse |-> FALSE, ttl |-> 0]})

\* the call up to the lock: the early returns, the key, time.Now() and the ttl
SidecarSessionKeyBegin(p) ==
    /\ sidecarCalls[p].pc = "idle"
    /\ UNCHANGED otherThanSidecar
    /\ \E a \in SidecarAccountIDs :
          IF sidecarCfg.nil \/ ~sidecarSessionReuseEnabled(sidecarCfg) \/ a <= 0
          THEN /\ sidecarReturned' = [op |-> "sidecarSessionKey", key |-> <<a, << >> >>,
                                      now |-> sidecarClock, session |-> ""]
               /\ UNCHANGED sidecarCalls
          ELSE /\ \E key \in {soraAccountProxyKey(a, normalizeSoraProxyKey(build, proxyURL)) :
                                  proxyURL \in SidecarProxyURLs, build \in Builds} :
                     sidecarCalls' =
                        [sidecarCalls EXCEPT ![p] =
                            [pc |-> "lock", key |-> key, now |-> sidecarClock,
                             ttlSeconds |-> sidecarSessionTTLSeconds(sidecarCfg)]]
               /\ sidecarReturned' = SidecarNoReturn
    /\ UNCHANGED <<sidecarCfg, sidecarClock, sidecarSessions, sidecarSeq, sidecarTicks>>

\* the call under sidecarSessionMu: purge, then hit or miss
SidecarSessionKeyLocked(p) ==
    /\ sidecarCalls[p].pc = "lock"
    /\ UNCHANGED otherThanSidecar
    /\ LET key == sidecarCalls[p].key
           t == sidecarCalls[p].now
           ttlSeconds == sidecarCalls[p].ttlSeconds
           cleaned == cleanupExpiredSidecarSessionsLocked(sidecarSessions, t)
           exists == key \in DOMAIN cleaned
           expiresAt == IF ttlSeconds <= 0 THEN t + OneYearSeconds ELSE t + ttlSeconds
           newEntry == [SessionKey |-> SidecarSessionKeyOf(sidecarSeq + 1),
                        ExpiresAt |-> expiresAt, LastUsedAt |-> t]
       IN  IF exists
           THEN /\ sidecarSessions' = MapPut(cleaned, key, [cleaned[key] EXCEPT !.LastUsedAt = t])
                /\ sidecarReturned' = [op |-> "sidecarSessionKey", key |-> key, now |-> t,
                                       session |-> cleaned[key].SessionKey]
                /\ UNCHANGED sidecarSeq
           ELSE /\ sidecarSessions' = MapPut(cleaned, key, newEntry)
                /\ sidecarReturned' = [op |-> "sidecarSessionKey", key |-> key, now |-> t,
                                       session |-> newEntry.SessionKey]
                /\ sidecarSeq' = sidecarSeq + 1
    /\ sidecarCalls' = [sidecarCalls EXCEPT ![p] = SidecarIdle]
    /\ UNCHANGED <<sidecarCfg, sidecarClock, sidecarTicks>>

SidecarTick ==
    /\ sidecarTicks < MaxSidecarTicks
    /\ UNCHANGED otherThanSidecar
    /\ \E d \in SidecarTickSteps : sidecarClock' = sidecarClock + d
    /\ sidecarTicks' = sidecarTicks + 1
    /\ sidecarReturned' = SidecarNoReturn
    /\ UNCHANGED <<sidecarCfg, sidecarSessions, sidecarCalls, sidecarSeq>>

SNext ==
    \/ \E p \in Callers : SidecarSessionKeyBegin(p) \/ SidecarSessionKeyLocked(p)
    \/ SidecarTick

(***************************************************************************)
(* OpenAIGatewayHandler.Responses: validation of the request body          *)
(***************************************************************************)
\* JSON values of the fields the validation looks at
JAbsent == [t |-> "absent", v |-> ""]
JString(s) == [t |-> "string", v |-> s]
JNumber == [t |-> "number", v |-> ""]
JBool(b) == [t |-> IF b THEN "true" ELSE "false", v |-> ""]

\* items of the input array: type, call_id and id (an empty string is a missing field)
InputItem(type, callID, id) == [type |-> type, call_id |-> callID, id |-> id]
InputItems ==
    {InputItem(t, c, i) :
        t \in {"function_call_output", "function_call", "item_reference", "message"},
        c \in {"", "c1"}, i \in {"", "c1"}}
MaxInputItems == 2
Inputs == UNION {[1..n -> InputItems] : n \in 0..MaxInputItems}

RequestBody(kind, model, stream, previous, input) ==
    [kind |-> kind, model |-> model, stream |-> stream, previous_response_id |-> previous,
     input |-> input]
RequestBodies ==
    {RequestBody(k, JAbsent, JAbsent, JAbsent, << >>) : k \in {"empty", "invalid json"}}
    \cup {RequestBody("json", m, s, p, i) :
            m \in {JAbsent, JNumber, JString(""), JString("gpt-5")},
            s \in {JAbsent, JBool(TRUE), JString("yes")},
            p \in {JAbsent, JString(" "), JString("resp_1")},
            i \in Inputs}

\* service.HasFunctionCallOutput
HasFunctionCallOutput(reqBody) ==
    \E i \in DOMAIN reqBody.input : reqBody.input[i].type = "function_call_output"
\* service.HasToolCallContext: a function_call of the input carries a call_id
HasToolCallContext(reqBody) ==
    \E i \in DOMAIN reqBody.input :
        reqBody.input[i].type = "function_call" /\ reqBody.input[i].call_id # ""
\* service.HasFunctionCallOutputMissingCallID
HasFunctionCallOutputMissingCallID(reqBody) ==
    \E i \in DOMAIN reqBody.input :
        reqBody.input[i].type = "function_call_output" /\ reqBody.input[i].call_id = ""
\* service.FunctionCallOutputCallIDs
FunctionCallOutputCallIDs(reqBody) ==
    {reqBody.input[i].call_id :
        i \in {j \in DOMAIN reqBody.input : reqBody.input[j].type = "function_call_output"}}
\* service.HasItemReferenceForCallIDs: every call id is the id of an item_reference
HasItemReferenceForCallIDs(reqBody, callIDs) ==
    /\ callIDs # {}
    /\ \A c \in callIDs :
          \E i \in DOMAIN reqBody.input :
              reqBody.input[i].type = "item_reference" /\ reqBody.input[i].id = c

MissingCallIDMessage == "function_call_output requires call_id or previous_response_id; if relying on history, ensure store=true and reuse previous_response_id"
MissingItemReferenceMessage == "function_call_output requires item_reference ids matching each call_id, or previous_response_id/tool_call context; if relying on history, ensure store=true and reuse previous_response_id"

BadRequest(w, message) == errorResponse(w, 400, "invalid_request_error", message)

validateRequest_NoItemReferenceCheck(w, body) ==
    LET previousResponseID == IF body.previous_response_id.t = "string"
                              THEN body.previous_response_id.v ELSE ""
    IN  IF body.kind = "empty" THEN BadRequest(w, "Request body is empty")
        ELSE IF body.kind # "json" THEN BadRequest(w, "Failed to parse request body")
        ELSE IF body.model.t # "string" \/ body.model.v = ""
        THEN BadRequest(w, "model is required")
        ELSE IF body.stream.t \notin {"absent", "true", "false"}
        THEN BadRequest(w, "invalid stream field type")
        ELSE IF /\ HasFunctionCallOutput(body)
                /\ TrimSpace(previousResponseID) = ""
                /\ ~HasToolCallContext(body)
                /\ HasFunctionCallOutputMissingCallID(body)
        THEN BadRequest(w, MissingCallIDMessage)
        ELSE w
\* the response the validation of Responses writes; w unchanged when the body passes
validateRequest(w, body) ==
    LET previousResponseID == IF body.previous_response_id.t = "string"
                              THEN body.previous_response_id.v ELSE ""
    IN  IF body.kind = "empty" THEN BadRequest(w, "Request body is empty")
        ELSE IF body.kind # "json" THEN BadRequest(w, "Failed to parse request body")
        ELSE IF body.model.t # "string" \/ body.model.v = ""
        THEN BadRequest(w, "model is required")
        ELSE IF body.stream.t \notin {"absent", "true", "false"}
        THEN BadRequest(w, "invalid stream field type")
        ELSE IF /\ HasFunctionCallOutput(body)
                /\ TrimSpace(previousResponseID) = ""
                /\ ~HasToolCallContext(body)
        THEN IF HasFunctionCallOutputMissingCallID(body)
             THEN BadRequest(w, MissingCallIDMessage)
             ELSE IF ~HasItemReferenceForCallIDs(body, FunctionCallOutputCallIDs(body))
             THEN BadRequest(w, MissingItemReferenceMessage)
             ELSE w
        ELSE w

(***************************************************************************)
(* SoraMediaStorage.StoreFromURLs                                          *)
(***************************************************************************)
\* maxBytes of refreshConfig when max_download_bytes <= 0: 200 << 20
DefaultMaxDownloadBytes == 209715200
\* retries of downloadAndStore
DownloadRetries == 3
\* resp.ContentLength of a response without the header
UnknownLength == -1

\* what the server answers to one GET: status, Content-Length, bytes of the body
Response(status, contentLength, size) ==
    [status |-> status, contentLength |-> contentLength, size |-> size]
SmallFile == Response(200, 1, 1)
LargeFile == Response(200, 9, 9)
LargeChunked == Response(200, UnknownLength, 9)
ServerError == Response(500, 0, 0)
\* the answers to the attempts on one URL
Servers ==
    {[k \in 1..DownloadRetries |-> r] : r \in {SmallFile, LargeFile, LargeChunked, ServerError}}
    \cup {<<ServerError, ServerError, SmallFile>>, <<ServerError, LargeFile, SmallFile>>}
\* a URL of the call: the string and the server behind it
MediaURLs == {[raw |-> "", server |-> <<ServerError, ServerError, ServerError>>]}
             \cup {[raw |-> u, server |-> s] : u \in {"url-1", "url-2"}, s \in Servers}
MaxURLs == 2
URLLists == UNION {[1..n -> MediaURLs] : n \in 0..MaxURLs}

\* the storage: nil, or the fields refreshConfig and EnsureLocalDirs set
NilStorage ==
    [nil |-> TRUE, enabled |-> FALSE, ready |-> FALSE, dirsFail |-> FALSE,
     fallbackToUpstream |-> FALSE, maxDownloadBytes |-> DefaultMaxDownloadBytes]
Storages ==
    {NilStorage}
    \cup {[nil |-> FALSE, enabled |-> e, ready |-> r, dirsFail |-> d,
           fallbackToUpstream |-> f,
           maxDownloadBytes |-> IF m <= 0 THEN DefaultMaxDownloadBytes ELSE m] :
            e \in BOOLEAN, r \in BOOLEAN, d \in BOOLEAN, f \in BOOLEAN, m \in {0, 1}}

\* path.Join("/", mediaType, datePath, filename): the file of the n-th URL
RelativePath(mediaType, n) == "/" \o mediaType \o "/2006/01/02/file-" \o ToString(n)

\* downloadOnce: "" when the file was written, or the error
downloadOnce(s, resp) ==
    IF resp.status # 200 THEN "download failed"
    ELSE IF s.maxDownloadBytes > 0 /\ resp.contentLength > s.maxDownloadBytes
    THEN "download size exceeds limit"
    ELSE LET written == IF resp.size > s.maxDownloadBytes + 1
                        THEN s.maxDownloadBytes + 1 ELSE resp.size
         IN  IF s.maxDownloadBytes > 0 /\ written > s.maxDownloadBytes
             THEN "download size exceeds limit"
             ELSE ""

\* downloadAndStore from the given attempt on
RECURSIVE downloadAttempt(_, _, _, _)
downloadAttempt(s, ctxCancelled, url, attempt) ==
    LET err == IF ctxCancelled THEN "context canceled"
               ELSE downloadOnce(s, url.server[attempt])
    IN  IF ctxCancelled THEN err
        ELSE IF err = "" THEN ""
        ELSE IF attempt < DownloadRetries
        THEN downloadAttempt(s, ctxCancelled, url, attempt + 1)
        ELSE err
\* downloadAndStore: "" when the file was stored, or the error
downloadAndStore(s, ctxCancelled, url) ==
    IF url.raw = "" THEN "empty url"
    ELSE downloadAttempt(s, ctxCancelled, url, 1)

Stored(results) == [results |-> results, err |-> ""]
StoreError(err) == [results |-> << >>, err |-> err]

\* the loop of StoreFromURLs from the n-th URL on
RECURSIVE storeFrom(_, _, _, _, _, _, _)
storeFrom(s, ctxCancelled, mediaType, urls, n, results, skipFailed) ==
    IF n > Len(urls) THEN Stored(results)
    ELSE LET err == downloadAndStore(s, ctxCancelled, urls[n]) IN
         IF err # ""
         THEN IF s.fallbackToUpstream
              THEN storeFrom(s, ctxCancelled, mediaType, urls, n + 1,
                             IF skipFailed THEN results ELSE Append(results, urls[n].raw),
                             skipFailed)
              ELSE StoreError(err)
         ELSE storeFrom(s, ctxCancelled, mediaType, urls, n + 1,
                        Append(results, RelativePath(mediaType, n)), skipFailed)

StoreFromURLs_SkipsFailed(s, ctxCancelled, mediaType, urls) ==
    IF urls = << >> THEN Stored(<< >>)
    ELSE IF s.nil \/ ~s.enabled THEN Stored([i \in DOMAIN urls |-> urls[i].raw])
    ELSE IF ~s.ready /\ s.dirsFail THEN StoreError("create image dir")
    ELSE storeFrom(s, ctxCancelled, mediaType, urls, 1, << >>, TRUE)
StoreFromURLs(s, ctxCancelled, mediaType, urls) ==
    IF urls = << >> THEN Stored(<< >>)
    ELSE IF s.nil \/ ~s.enabled THEN Stored([i \in DOMAIN urls |-> urls[i].raw])
    ELSE IF ~s.ready /\ s.dirsFail THEN StoreError("create image dir")
    ELSE storeFrom(s, ctxCancelled, mediaType, urls, 1, << >>, FALSE)

StoreArgs ==
    [storage : Storages, ctxCancelled : BOOLEAN, mediaType : {"image", "video"},
     urls : URLLists]

(***************************************************************************)
(* SoraSDKClient.getSDKClient                                              *)
(***************************************************************************)
MaxSDKClientCalls == 3
\* the accounts of the calls: nil or without proxy, and two spellings of one proxy URL
SDKAccounts ==
    {[proxy |-> FALSE, url |-> << >>],
     [proxy |-> TRUE, url |-> <<"http", ":", "/", "/", "host">>],
     [proxy |-> TRUE, url |-> <<" ", "http", ":", "/", "/", "host", " ">>]}

\* "" when the account has no proxy, else strings.TrimSpace(account.Proxy.URL())
resolveProxyURL(a) == IF ~a.proxy THEN << >> ELSE TrimSpaceString(a.url)

\* sync.Map.Load: <<value, ok>>
SyncMapLoad(m, k) == IF k \in DOMAIN m THEN <<m[k], TRUE>> ELSE <<0, FALSE>>

SyncMapLoadOrStore_Store(m, k, v) == <<MapPut(m, k, v), v>>
\* sync.Map.LoadOrStore: <<the map it leaves, actual>>
SyncMapLoadOrStore(m, k, v) ==
    IF k \in DOMAIN m THEN <<m, m[k]>> ELSE <<MapPut(m, k, v), v>>

SDKIdle == [pc |-> "idle", proxyURL |-> << >>]
SDKNoReturn == [op |-> "none", proxyURL |-> << >>, client |-> 0, created |-> 0, err |-> FALSE]
SDKReturn(proxyURL, client, created, err) ==
    [op |-> "getSDKClient", proxyURL |-> proxyURL, client |-> client, created |-> created,
     err |-> err]

KInitWith(callers) ==
    /\ sdkClients = << >>
    /\ sdkCalls = [p \in callers |-> SDKIdle]
    /\ sdkNew = 0
    /\ sdkStarted = 0
    /\ sdkReturned = SDKNoReturn
KInit == KInitWith(Callers)
KIdle == KInitWith({})

\* getSDKClient up to the return of a loaded client or to sora.New
GetSDKClientLoad(p) ==
    /\ p \in DOMAIN sdkCalls
    /\ UNCHANGED otherThanSDK
    /\ sdkCalls[p].pc = "idle"
    /\ sdkStarted < MaxSDKClientCalls
    /\ sdkStarted' = sdkStarted + 1
    /\ \E a \in SDKAccounts :
         LET proxyURL == resolveProxyURL(a)
             v == SyncMapLoad(sdkClients, proxyURL)
         IN  IF v[2]
             THEN /\ sdkReturned' = SDKReturn(proxyURL, v[1], 0, FALSE)
                  /\ UNCHANGED sdkCalls
             ELSE /\ sdkCalls' = [sdkCalls EXCEPT ![p] = [pc |-> "new", proxyURL |-> proxyURL]]
                  /\ sdkReturned' = SDKNoReturn
    /\ UNCHANGED <<sdkClients, sdkNew>>

\* sora.New(proxyURL), c.sdkClients.LoadOrStore and the return
GetSDKClientStore(p) ==
    /\ p \in DOMAIN sdkCalls
    /\ UNCHANGED otherThanSDK
    /\ sdkCalls[p].pc = "new"
    /\ LET proxyURL == sdkCalls[p].proxyURL IN
       \/ \* sora.New fails
          /\ sdkReturned' = SDKReturn(proxyURL, 0, 0, TRUE)
          /\ UNCHANGED <<sdkClients, sdkNew>>
       \/ \* sora.New returns the next instance
          LET client == sdkNew + 1
              r == SyncMapLoadOrStore(sdkClients, proxyURL, client)
          IN  /\ sdkNew' = client
              /\ sdkClients' = r[1]
              /\ sdkReturned' = SDKReturn(proxyURL, r[2], client, FALSE)
    /\ sdkCalls' = [sdkCalls EXCEPT ![p] = SDKIdle]
    /\ UNCHANGED sdkStarted

KNext == \E p \in Callers : GetSDKClientLoad(p) \/ GetSDKClientStore(p)

(***************************************************************************)
(* Functions without state: the initial state draws the function and its   *)
(* arguments from bounded sets, one action per function applies it         *)
(***************************************************************************)
NotApplied == [fn |-> "none", args |-> << >>, out |-> "none"]
Applied(fn) == applied.fn = fn
Result(fn, args, out) == applied' = [fn |-> fn, args |-> args, out |-> out]

PIdle == applied = NotApplied

NormalizeArgs == [build : Builds, parts : ProxyURLParts]
ApplyNormalizeSoraProxyKey ==
    /\ applied.fn = "none"
    /\ \E a \in NormalizeArgs :
          Result("normalizeSoraProxyKey", a,
                 normalizeSoraProxyKey(a.build, ProxyURL(a.parts)))
    /\ UNCHANGED otherThanPure

\* base seconds: around zero, around the clamp, and the largest ints
BaseSeconds ==
    {Int64Of(n) : n \in {-1, 0, 1, 60, 899, 900, 901, 1200, 1800, 3599, 3600, 3601}}
    \cup {<<LimbBase - 1, LimbBase - 1, LimbBase - 1, 8191>>, <<0, 0, 0, 8192>>,
          <<0, 0, 0, 16384>>, MaxInt64}
Streaks == -1..6
CooldownArgs == [baseSeconds : BaseSeconds, streak : Streaks]
ApplySoraComputeChallengeCooldownSeconds ==
    /\ applied.fn = "none"
    /\ \E a \in CooldownArgs :
          Result("soraComputeChallengeCooldownSeconds", a,
                 soraComputeChallengeCooldownSeconds(a.baseSeconds, a.streak))
    /\ UNCHANGED otherThanPure

ApplyReadUpstreamResponseBodyLimited ==
    /\ applied.fn = "none"
    /\ \E a \in ReadLimitedArgs :
          Result("readUpstreamResponseBodyLimited", a,
                 readUpstreamResponseBodyLimited(a.reader, a.maxBytes))
    /\ UNCHANGED otherThanPure

\* the digest bytes 6 and 8 of the seed are the arguments byte6 and byte8
ApplyGenerateUUIDFromSeed ==
    /\ applied.fn = "none"
    /\ \E a \in UUIDArgs :
          Result("generateUUIDFromSeed", a,
                 generateUUIDFromSeed([s \in {a.seed} |-> <<a.byte6, a.byte8>>], a.seed))
    /\ UNCHANGED otherThanPure

\* two calls with the same account id
ApplyRewriteUserID ==
    /\ applied.fn = "none"
    /\ \E a \in RewriteArgs :
          LET call(c) == RewriteUserID(a.oracle, c.body, a.accountID, c.accountUUID,
                                       c.cachedClientID)
          IN  Result("RewriteUserID", a, <<call(a.first), call(a.second)>>)
    /\ UNCHANGED otherThanPure

\* the validation of one request body, written to a fresh c.Writer
ApplyValidateRequest ==
    /\ applied.fn = "none"
    /\ \E body \in RequestBodies :
          Result("validateRequest", body,
                 validateRequest([out |-> << >>, status |-> 0], body))
    /\ UNCHANGED otherThanPure

ApplyStoreFromURLs ==
    /\ applied.fn = "none"
    /\ \E a \in StoreArgs :
          Result("StoreFromURLs", a,
                 StoreFromURLs(a.storage, a.ctxCancelled, a.mediaType, a.urls))
    /\ UNCHANGED otherThanPure

PNext ==
    \/ ApplyNormalizeSoraProxyKey
    \/ ApplySoraComputeChallengeCooldownSeconds
    \/ ApplyReadUpstreamResponseBodyLimited
    \/ ApplyGenerateUUIDFromSeed
    \/ ApplyRewriteUserID
    \/ ApplyValidateRequest
    \/ ApplyStoreFromURLs

InitPure == HIdle /\ CIdle /\ FIdle /\ TIdle /\ SIdle /\ PIdle /\ KIdle

\* one application of one function to arguments drawn from bounded sets
SpecPure == InitPure /\ [][PNext]_vars

InitSidecar == HIdle /\ CIdle /\ FIdle /\ TIdle /\ SInit /\ PIdle /\ KIdle

\* concurrent sidecarSessionKey calls while the clock advances
SpecSidecar == InitSidecar /\ [][SNext]_vars

InitSDK == HIdle /\ CIdle /\ FIdle /\ TIdle /\ SIdle /\ PIdle /\ KInit

\* concurrent getSDKClient calls
SpecSDK == InitSDK /\ [][KNext]_vars

\* one goroutine working on the cooldowns of two accounts, the client having
\* no configuration (a cooldown of 900 seconds)
InitCooldownKeys ==
    /\ HIdle /\ FIdle /\ TIdle /\ SIdle /\ PIdle /\ KIdle
    /\ CInitWith({[nil |-> TRUE, seconds |-> 0]}, {1}, {1, 2})

SpecCooldownKeys == InitCooldownKeys /\ [][CNext]_vars

InitCooldown == HIdle /\ CInit /\ FIdle /\ TIdle /\ SIdle /\ PIdle /\ KIdle

\* concurrent check / record / clear calls on the cooldown registry
SpecCooldown == InitCooldown /\ [][CNext]_vars

InitIdentity == HIdle /\ CIdle /\ FInit /\ TIdle /\ SIdle /\ PIdle /\ KIdle

\* concurrent GetOrCreateFingerprint calls for one account
SpecIdentity == InitIdentity /\ [][FNext]_vars

Init == HInit /\ CIdle /\ FIdle /\ TIdle /\ SIdle /\ PIdle /\ KIdle
Next == HNext
\* one Responses request, from the user slot to the end of the failover loop
Spec == Init /\ [][Next]_vars

InitToken == HIdle /\ CIdle /\ FIdle /\ TInit /\ SIdle /\ PIdle /\ KIdle

\* getAccessToken calls on one account, one after the other
SpecToken == InitToken /\ [][TNext]_vars

(***************************************************************************)
(* Properties of the Responses handler                                     *)
(***************************************************************************)
\* the switch budget the configuration asks for
ConfiguredSwitches ==
    IF ~cfg.nil /\ cfg.MaxAccountSwitches > 0 THEN cfg.MaxAccountSwitches ELSE 3

\* C1: one request makes at most max_account_switches + 1 Forward calls, where
\* max_account_switches is the configured value when > 0 and 3 otherwise.
C1_ForwardBudget == forwardCalls <= ConfiguredSwitches + 1

\* the default budget is used up: four Forward calls, the request has ended
C1_Witness ==
    /\ pc = "done"
    /\ cfg.nil
    /\ forwardCalls = 4
    /\ Cardinality(failedOver) = 4

\* C2: every user slot and every account slot the request acquired has been
\* released (its closure has run, once) when the handler returns, on every exit
\* path, and the slot of a failed attempt is released before the retry.
C2_SlotsReleased ==
    /\ pc = "done" => userSlot # "held" /\ \A a \in Accounts : acctSlot[a] # "held"
    /\ pc = "select" => \A a \in Accounts : acctSlot[a] # "held"
    /\ \A a \in Accounts : acctSlot[a] = "held" => a = account

\* a cancelled request that failed over once has given back its user slot and
\* the slots of two accounts
C2_Witness ==
    /\ pc = "done"
    /\ ctxDone
    /\ userSlot = "released"
    /\ Cardinality({a \in Accounts : acctSlot[a] = "released"}) >= 2

\* C3: each successful IncrementWaitCount / IncrementAccountWaitCount is matched
\* by exactly one decrement of the same counter on every exit path, and a
\* counter that was not incremented (refused, error) is never decremented.
C3_WaitCountBalanced ==
    /\ userWaitDec <= userWaitInc
    /\ \A a \in Accounts : acctWaitDec[a] <= acctWaitInc[a]
    /\ pc = "done" =>
          /\ userWaitDec = userWaitInc
          /\ \A a \in Accounts : acctWaitDec[a] = acctWaitInc[a]
    /\ pc # "done" =>
          /\ userWaitInc - userWaitDec = (IF waitCounted THEN 1 ELSE 0)
          /\ \A a \in Accounts :
                acctWaitInc[a] - acctWaitDec[a] =
                    (IF pc = "acctWait" /\ a = account /\ accountWaitCounted THEN 1 ELSE 0)

\* a request that waited, counted, for the user slot and for an account slot,
\* and whose account wait failed
C3_Witness ==
    /\ pc = "done"
    /\ userWaitInc = 1
    /\ userWaitDec = 1
    /\ \E a \in Accounts : acctWaitInc[a] = 1 /\ acctWaitDec[a] = 1 /\ acctSlot[a] = "nil"

LastFrame(w) == w.out[Len(w.out)]

\* the handler ends the request with an error of its own in this step
EndsWithHandlerError ==
    /\ pc' = "done"
    /\ \/ pc \in {"userWait", "billing", "select", "acctWait"}
       \/ pc = "forward" /\ failedOver' # failedOver

WritesErrorFrame ==
    /\ writer'.out # writer.out
    /\ LastFrame(writer').kind \in {"sse", "json"}

\* C11: an error written while streamStarted is exactly one SSE frame
\* "event: error" carrying {"error":{"type","message"}} and leaves the HTTP
\* status as it was; an error written before that is one JSON body of the same
\* shape sent with the given status.
C11_StreamingAwareError ==
    [][WritesErrorFrame =>
          LET f == LastFrame(writer')
          IN  /\ writer'.out = Append(writer.out, f)
              /\ IF streamStarted
                 THEN /\ f = Frame("sse", 0, f.type, f.message)
                      /\ writer'.status = IF Written(writer) THEN writer.status ELSE 200
                 ELSE /\ f.kind = "json"
                      /\ f.status # 0
                      /\ writer'.status = f.status]_vars

\* a rate limit error was delivered as an SSE event on a response opened by a
\* ping with status 200, before any Forward
C11_Witness ==
    /\ pc = "done"
    /\ forwardCalls = 0
    /\ streamStarted
    /\ LastFrame(writer) = Frame("sse", 0, "rate_limit_error",
                                 "Concurrency limit exceeded for user, please retry later")
    /\ writer.status = 200

\* C12 as stated: with max_account_switches = 2 and three accounts that all
\* answer 502, the client gets exactly one 502 upstream_error JSON whose message
\* is derived from the third attempt's upstream body, after exactly three
\* upstream calls.
C12_ExhaustedMessageFromBody ==
    (/\ pc = "done"
     /\ ~cfg.nil
     /\ cfg.MaxAccountSwitches = 2
     /\ errorPassthroughService = {}
     /\ ~streamStarted
     /\ Cardinality(failedOver) = 3
     /\ failoverCodes = {502}
     /\ lastFailoverErr.ResponseBody # "")
    => /\ forwardCalls = 3
       /\ writer.status = 502
       /\ writer.out = <<Frame("json", 502, "upstream_error",
                               ExtractUpstreamErrorMessage(lastFailoverErr.ResponseBody))>>

\* the step is a failed account selection
SelectFailsStep == pc = "select" /\ pc' = "done" /\ account' = account

\* the client mapping of a failover error: a matching passthrough rule, else the
\* status table
C13_FromFailoverError(service, err) ==
    IF err.ResponseBody # "" /\ PassthroughAll \in service /\ err.StatusCode = 502
    THEN <<502, "upstream_error", "upstream: " \o err.ResponseBody>>
    ELSE IF err.ResponseBody # "" /\ PassthroughCustom \in service /\ err.StatusCode = 502
    THEN <<503, "upstream_error", "custom message">>
    ELSE IF err.StatusCode = 429
    THEN <<429, "rate_limit_error", "Upstream rate limit exceeded, please retry later">>
    ELSE <<502, "upstream_error", "Upstream service temporarily unavailable">>

\* C13: a failed selection ends the request with 503 api_error "Service
\* temporarily unavailable" when no account failed over earlier in the request,
\* and otherwise with the response derived from the last failover error; there
\* is no third outcome. The error is rendered as a JSON body with that status,
\* or as an SSE error event when the stream has started.
C13_SelectionFailure ==
    [][SelectFailsStep =>
          LET f == LastFrame(writer')
              m == IF failedOver = {}
                   THEN <<503, "api_error", "Service temporarily unavailable">>
                   ELSE C13_FromFailoverError(errorPassthroughService, lastFailoverErr)
          IN  /\ writer'.out = Append(writer.out, f)
              /\ failedOver # {} => lastFailoverErr # NoErr
              /\ f.type = m[2]
              /\ f.message = m[3]
              /\ IF streamStarted
                 THEN f.kind = "sse"
                 ELSE f.kind = "json" /\ f.status = m[1] /\ writer'.status = m[1]]_vars

\* a selection failed after one account failed over with 429: the client got
\* the 429 of that failover error
C13_Witness ==
    /\ pc = "done"
    /\ forwardCalls = 1
    /\ Cardinality(failedOver) = 1
    /\ switchCount = 1
    /\ lastFailoverErr.StatusCode = 429
    /\ writer.status = 429
    /\ writer.out = <<Frame("json", 429, "rate_limit_error",
                            "Upstream rate limit exceeded, please retry later")>>

\* the step ends the request on an error of TryAcquireUserSlot or
\* TryAcquireAccountSlot
UserSlotErrorStep ==
    /\ pc = "start"
    /\ pc' = "done"
    /\ LastFrame(writer').message = "Concurrency limit exceeded for user, please retry later"

AccountSlotErrorStep ==
    /\ pc = "select"
    /\ pc' = "done"
    /\ account' # account
    /\ LastFrame(writer').message =
           "Concurrency limit exceeded for account, please retry later"

\* C14: when TryAcquireUserSlot or TryAcquireAccountSlot fails with an
\* infrastructure error the request is denied with 429 rate_limit_error (a JSON
\* body with status 429, or an SSE error event when the stream has started),
\* it ends holding no slot of that family, and no Forward is made for it
\* after the error.
C14_SlotErrorDenies ==
    /\ [][UserSlotErrorStep \/ AccountSlotErrorStep =>
             LET f == LastFrame(writer')
             IN  /\ writer'.out = Append(writer.out, f)
                 /\ f.type = "rate_limit_error"
                 /\ IF streamStarted
                    THEN f.kind = "sse"
                    ELSE f.kind = "json" /\ f.status = 429 /\ writer'.status = 429
                 /\ forwardCalls' = forwardCalls
                 /\ UserSlotErrorStep => userSlot' = "nil" /\ forwardCalls' = 0
                 /\ AccountSlotErrorStep => acctSlot'[account'] # "held"]_vars
    /\ [][pc = "done" => pc' = "done" /\ forwardCalls' = forwardCalls]_vars

\* TryAcquireAccountSlot failed for the second account of the request: 429 to
\* the client, the account's slot not held, one Forward made before the error
C14_Witness ==
    /\ pc = "done"
    /\ forwardCalls = 1
    /\ account \notin failedOver
    /\ account \in Accounts
    /\ acctSlot[account] = "nil"
    /\ writer.status = 429
    /\ writer.out = <<Frame("json", 429, "rate_limit_error",
                            "Concurrency limit exceeded for account, please retry later")>>

\* C15 as stated: when IncrementWaitCount or IncrementAccountWaitCount fails the
\* request is denied rather than admitted, so no request waits for a slot
\* without being counted in the wait queue.
C15_WaitsOnlyCounted ==
    /\ pc = "userWait" => waitCounted
    /\ pc = "acctWait" => accountWaitCounted


\* Forward has returned an error that is not an UpstreamFailoverError
NonFailoverErrorStep ==
    /\ pc = "forward"
    /\ pc' = "done"
    /\ usage' = usage
    /\ failedOver' = failedOver

FallbackFrame == Frame("json", 502, "upstream_error", "Upstream request failed")

\* C22: after a Forward error that is no UpstreamFailoverError the handler
\* selects no further account and makes no further upstream attempt, and it
\* writes the fallback 502 upstream_error "Upstream request failed" exactly when
\* nothing has been written to the client; a response already written is left
\* as it is.
C22_NonFailoverErrorSurfaces ==
    /\ [][NonFailoverErrorStep =>
             /\ forwardCalls' = forwardCalls
             /\ failedAccountIDs' = failedAccountIDs
             /\ switchCount' = switchCount
             /\ IF Written(writer)
                THEN /\ writer'.status = writer.status
                     /\ \/ writer'.out = writer.out
                        \/ writer'.out = Append(writer.out, Frame("partial", 200, "", ""))
                ELSE \/ writer' = [out |-> <<Frame("partial", 200, "", "")>>, status |-> 200]
                     \/ writer' = [out |-> <<FallbackFrame>>, status |-> 502]]_vars
    /\ [][pc = "done" => pc' = "done" /\ forwardCalls' = forwardCalls
                         /\ writer' = writer]_vars

\* the second account's Forward failed with a plain error before anything was
\* written: the fallback 502 is the whole response
C22_Witness ==
    /\ pc = "done"
    /\ forwardCalls = 2
    /\ Cardinality(failedOver) = 1
    /\ account \notin failedOver
    /\ usage = 0
    /\ writer = [out |-> <<FallbackFrame>>, status |-> 502]

\* C23: RecordUsage is scheduled once, by the Forward attempt that succeeded and
\* with the account of that attempt; a request that ends with an error has none
\* scheduled; the request ends holding no user slot and no account slot.
C23_UsageOnSuccessOnly ==
    /\ [][/\ usage' # usage =>
                /\ usage = 0
                /\ pc = "forward"
                /\ pc' = "done"
                /\ usage' = account
                /\ account \in Accounts \ failedOver'
                /\ writer'.out = Append(writer.out, Frame("body", 200, "", ""))
          /\ (pc = "forward" /\ writer'.out # writer.out
                /\ LastFrame(writer').kind = "body") => usage' = account /\ usage = 0
          /\ (pc' = "done" /\ LastFrame(writer').kind # "body") => usage' = 0]_vars
    /\ [](pc = "done" =>
            /\ userSlot # "held"
            /\ \A a \in Accounts : acctSlot[a] # "held"
            /\ usage # 0 => LastFrame(writer).kind = "body" /\ usage = account)

\* the first account failed over, the second one answered: usage goes to the
\* second account
C23_Witness ==
    /\ pc = "done"
    /\ failedOver = {1}
    /\ account = 2
    /\ usage = 2
    /\ forwardCalls = 2
    /\ LastFrame(writer).kind = "body"
    /\ userSlot = "released"
    /\ acctSlot[2] = "released"

(***************************************************************************)
(* Properties of the access token manager                                  *)
(***************************************************************************)
\* the positions of the calls of one kind in the log of the last getAccessToken call
LogCalls(call) == {i \in 1..Len(tmLog) : tmLog[i].call = call}
\* the positions of recoverAccessToken and of everything it does
RecoveryCalls == {i \in 1..Len(tmLog) : tmLog[i].call # "tokenProvider.GetAccessToken"}
\* the token provider was asked and gave a non-blank token
ProviderYielded ==
    \E i \in LogCalls("tokenProvider.GetAccessToken") :
        tmLog[i].ok /\ TrimSpace(tmLog[i].arg) # ""
\* a getAccessToken call on an account has returned
TokenReturned == tmReturned.op = "getAccessToken" /\ ~tmCfg.accountNil
\* the first position of x in ids
IndexOf(ids, x) == CHOOSE k \in 1..Len(ids) : ids[k] = x /\ \A j \in 1..(k - 1) : ids[j] # x

\* C16: getAccessToken consults the token provider (when allowed) first, then
\* the stored access_token, then recovery, and stops at the first non-empty
\* token: a provider token ends the call with nothing else consulted, and a
\* stored token whose expires_at is absent or more than 2 minutes ahead is
\* returned with no recovery call.
C16_SourceOrder ==
    TokenReturned =>
        LET stored == TrimSpace(tmReturned.stored)
            fresh == \/ tmReturned.expiresAt = NoTime
                     \/ tmReturned.expiresAt - tmReturned.now > 2
        IN  /\ LogCalls("tokenProvider.GetAccessToken") =
                   IF tmCfg.tokenProvider /\ tmCfg.UseOpenAITokenProvider THEN {1} ELSE {}
            /\ ProviderYielded =>
                   /\ Len(tmLog) = 1
                   /\ tmReturned.token = tmLog[1].arg
                   /\ tmReturned.err = ""
            /\ (~ProviderYielded /\ stored # "" /\ fresh) =>
                   /\ RecoveryCalls = {}
                   /\ tmReturned.token = stored
                   /\ tmReturned.err = ""
            /\ RecoveryCalls # {} => ~ProviderYielded /\ (stored = "" \/ ~fresh)

\* the provider was asked and failed, and the stored token, three minutes from
\* its expiry, was returned with no recovery call
C16_Witness ==
    /\ TokenReturned
    /\ Len(tmLog) = 1
    /\ tmLog[1].call = "tokenProvider.GetAccessToken"
    /\ ~tmLog[1].ok
    /\ tmReturned.expiresAt - tmReturned.now = 3
    /\ tmReturned.token = "at-0"
    /\ tmReturned.err = ""

\* C17: a stored non-empty access_token that expires within 2 minutes (or has
\* expired) makes getAccessToken attempt recovery; the recovered token is
\* returned when the recovery succeeds and the stored token, with no error,
\* when it fails. getAccessToken never returns an error while a non-empty
\* access_token is stored.
C17_ExpiringStoredToken ==
    (TokenReturned /\ TrimSpace(tmReturned.stored) # "") =>
        /\ tmReturned.err = ""
        /\ (/\ ~ProviderYielded
            /\ tmReturned.expiresAt # NoTime
            /\ tmReturned.expiresAt - tmReturned.now <= 2) =>
               /\ LogCalls("recoverAccessToken") # {}
               /\ IF tmReturned.recoverErr = "" /\ TrimSpace(tmReturned.recovered) # ""
                  THEN tmReturned.token = tmReturned.recovered
                  ELSE tmReturned.token = TrimSpace(tmReturned.stored)

\* the stored token had expired, the session exchange and the refresh calls all
\* failed, and the stored token was returned with no error
C17_Witness ==
    /\ TokenReturned
    /\ tmReturned.stored = "at-0"
    /\ tmReturned.expiresAt <= tmReturned.now
    /\ LogCalls("exchangeSessionToken") # {}
    /\ LogCalls("RefreshAccessToken") # {}
    /\ tmReturned.recoverErr # ""
    /\ tmReturned.token = "at-0"
    /\ tmReturned.err = ""

\* C18: recoverAccessToken exchanges the session_token first (when one is
\* stored) and turns to the refresh_token only when that gave no token; the
\* refresh calls go through credentials.client_id, the Sora client id and the
\* generic client id in this order, skipping empty and already tried ids: each
\* call uses the first candidate not yet tried, no id is used twice, and no call
\* follows a successful one.
C18_RecoveryOrder ==
    LET S == LogCalls("exchangeSessionToken")
        R == LogCalls("RefreshAccessToken")
        ids == <<credentials.client_id, SoraClientID, ClientID>>
    IN  /\ Cardinality(S) <= 1
        /\ (LogCalls("recoverAccessToken") # {} /\ tmPc # "recover") =>
               (S # {} <=> credentials.session_token # "")
        /\ \A i \in S : \A r \in R : i < r /\ ~tmLog[i].ok
        /\ \A r \in R :
              /\ tmLog[r].arg # ""
              /\ \E k \in 1..3 : ids[k] = tmLog[r].arg
              /\ \A k \in 1..(IndexOf(ids, tmLog[r].arg) - 1) :
                    ids[k] = "" \/ \E i \in R : i < r /\ tmLog[i].arg = ids[k]
              /\ \A i \in R : i < r => tmLog[i].arg # tmLog[r].arg /\ ~tmLog[i].ok
        /\ \A i \in S \cup R : tmLog[i].ok =>
              \A j \in (i + 1)..Len(tmLog) :
                  tmLog[j].call \in {"accountRepo.Update", "soraAccountRepo.Upsert"}

\* the session exchange failed, the refresh failed with the account's own client
\* id and with the Sora client id, and succeeded with the generic client id
C18_Witness ==
    LET R == LogCalls("RefreshAccessToken")
    IN  /\ TokenReturned
        /\ \E i \in LogCalls("exchangeSessionToken") : ~tmLog[i].ok
        /\ Cardinality(R) = 3
        /\ \E r \in R : tmLog[r].ok /\ tmLog[r].arg = ClientID
        /\ \E r \in R : ~tmLog[r].ok /\ tmLog[r].arg = "custom-client-id"
        /\ tmReturned.recovered # ""

\* both repositories are set and the account is a stored one
BothRepositories ==
    tmCfg.accountRepo /\ tmCfg.soraAccountRepo /\ ~tmCfg.accountNil /\ tmCfg.accountID > 0
\* the last getAccessToken call recovered a token
RecoverySucceeded == TokenReturned /\ TrimSpace(tmReturned.recovered) # ""

\* C19 as stated: after every successful recovery the in-memory access_token is
\* the token returned, and the new access token has gone to both
\* accountRepo.Update and soraAccountRepo.Upsert.
C19_RecoveredTokenPersisted ==
    (RecoverySucceeded /\ BothRepositories) =>
        /\ credentials.access_token = tmReturned.recovered
        /\ tmReturned.token = tmReturned.recovered
        /\ \E i \in LogCalls("accountRepo.Update") : tmLog[i].arg = tmReturned.recovered
        /\ \E i \in LogCalls("soraAccountRepo.Upsert") :
              /\ "access_token" \in DOMAIN tmLog[i].updates
              /\ tmLog[i].updates["access_token"] = tmReturned.recovered

\* C20: a failing accountRepo.Update or soraAccountRepo.Upsert changes nothing
\* in the outcome of a recovery: the new token is returned with no error, the
\* in-memory credentials hold the new values, and the repository calls are made
\* whether or not the other one failed.
C20_PersistenceFailureIgnored ==
    RecoverySucceeded =>
        LET U == LogCalls("accountRepo.Update")
            X == LogCalls("soraAccountRepo.Upsert")
            bySession == \E i \in LogCalls("exchangeSessionToken") : tmLog[i].ok
            newRefresh == credentials.refresh_token = "rt-" \o ToString(tmCalls)
        IN  /\ tmReturned.recoverErr = ""
            /\ tmReturned.err = ""
            /\ tmReturned.token = tmReturned.recovered
            /\ credentials.access_token = tmReturned.recovered
            /\ bySession => credentials.session_token = "st-0"
            /\ Cardinality(U) = IF tmCfg.accountRepo THEN 1 ELSE 0
            /\ \A i \in U : tmLog[i].arg = tmReturned.recovered
            /\ (tmCfg.soraAccountRepo /\ tmCfg.accountID > 0 /\ (bySession \/ newRefresh))
                   => Cardinality(X) = 1
            /\ \A i \in U : tmLog[i].ok <=> accountRepoRow = credentials
            /\ \A i \in U : \A j \in X : i < j

\* the Update failed; the Upsert was made all the same and the token returned
C20_Witness ==
    /\ RecoverySucceeded
    /\ \E i \in LogCalls("accountRepo.Update") : ~tmLog[i].ok
    /\ \E j \in LogCalls("soraAccountRepo.Upsert") : tmLog[j].ok
    /\ accountRepoRow # credentials
    /\ tmReturned.err = ""
    /\ tmReturned.token = credentials.access_token

(***************************************************************************)
(* Properties of the cooldown registry                                     *)
(***************************************************************************)
baseCooldown == cloudflareChallengeCooldownSeconds(cooldownCfg)
\* the step is the locked part of a record call of caller p
RecordStep(p) == calls[p].pc = "record" /\ calls'[p].pc = "idle"

\* C4: a Record never shortens an active cooldown: every entry whose until is
\* after the recording call's now is still there after the Record, with an
\* until that is not earlier.
C4_RecordNeverShortens ==
    [][\A p \in Callers :
          RecordStep(p) =>
            \A k \in DOMAIN challengeCooldowns :
                challengeCooldowns[k].Until > calls[p].now =>
                   /\ k \in DOMAIN challengeCooldowns'
                   /\ challengeCooldowns'[k].Until >= challengeCooldowns[k].Until]_vars

\* a Record computed an until earlier than the active one and the entry kept
\* the later until
C4_Witness ==
    \E k \in DOMAIN challengeCooldowns :
        LET e == challengeCooldowns[k] IN
        /\ e.ConsecutiveChallenges >= 2
        /\ e.Until > now
        /\ e.Until > e.LastChallengeAt
                       + Seconds(IntOf(soraComputeChallengeCooldownSeconds(
                                     Int64Of(baseCooldown), e.ConsecutiveChallenges)))

\* the effective cooldown the streak of C5 asks for
C5_Expected(n) == Seconds(60 * (IF n > 4 THEN 4 ELSE n))

\* C5: with base cooldown 60 s and no Clear in between, the n-th Record of a run
\* of Records on a key that follow each other by at most 30 minutes leaves
\* until >= now + 60 s * min(n, 4), for n >= 2.
C5_StreakAdvances ==
    \A k \in DOMAIN challengeCooldowns :
        (/\ ~cooldownCfg.nil
         /\ baseCooldown = 60
         /\ hist[k].last = challengeCooldowns[k].LastChallengeAt
         /\ hist[k].chain >= 2)
        => challengeCooldowns[k].Until >= hist[k].last + C5_Expected(hist[k].chain)

\* C6: a Check returns the cooldown error (429, remaining whole seconds >= 1)
\* exactly when the cooldown is configured > 0 and the registry holds an entry
\* for the key with until > now; otherwise it returns ok, and an entry found
\* with until <= now is removed.
C6_CheckResult ==
    [][\A p \in Callers :
          LET c == calls[p]
              has == c.key \in DOMAIN challengeCooldowns
              active == has /\ challengeCooldowns[c.key].Until > c.now
              r == returned'
          IN
          /\ (c.pc = "idle" /\ r.op = "check" /\ calls' = calls) =>
                /\ r.value = Ok
                /\ r.account <= 0 \/ baseCooldown <= 0
          /\ (c.pc = "checkRead" /\ calls'[p].pc # "checkRead") =>
                /\ baseCooldown > 0
                /\ active <=> (r.op = "check" /\ r.value.StatusCode = 429)
                /\ active =>
                      /\ r.value.remaining >= 1
                      /\ Seconds(r.value.remaining)
                            >= challengeCooldowns[c.key].Until - c.now
                      /\ Seconds(r.value.remaining - 1)
                            < challengeCooldowns[c.key].Until - c.now
                      /\ UNCHANGED challengeCooldowns
                /\ ~has => r.op = "check" /\ r.value = Ok
                /\ (has /\ ~active) => calls'[p].pc = "checkDelete"
          /\ (c.pc = "checkDelete" /\ calls'[p].pc = "idle") =>
                /\ c.key \notin DOMAIN challengeCooldowns'
                /\ r.op = "check" /\ r.value = Ok]_vars

\* a Check has just returned the cooldown error of an entry with a streak, with
\* a fraction of a second rounded up
C6_Witness ==
    /\ returned.op = "check"
    /\ returned.value.StatusCode = 429
    /\ returned.value.streak >= 2
    /\ \E k \in DOMAIN challengeCooldowns :
          /\ k[1] = returned.account
          /\ Seconds(returned.value.remaining)
                > challengeCooldowns[k].Until - returned.now

\* C7: after a Clear the registry has no entry for the key, a Check before the
\* next Record returns ok, and the first Record after the Clear leaves streak 1
\* and until = now + base, whatever the streak was before.
C7_ClearResets ==
    \A k \in Keys :
        /\ hist[k].sinceClear = 0 =>
              /\ k \notin DOMAIN challengeCooldowns
              /\ (returned.op = "check" /\ returned.account = k[1])
                    => returned.value = Ok
        /\ (hist[k].sinceClear = 1 /\ k \in DOMAIN challengeCooldowns) =>
              /\ challengeCooldowns[k].ConsecutiveChallenges = 1
              /\ challengeCooldowns[k].Until
                    = challengeCooldowns[k].LastChallengeAt + Seconds(baseCooldown)

\* an entry with a streak of 2 or more was cleared and one Record has followed
C7_Witness ==
    \E k \in DOMAIN challengeCooldowns :
        /\ hist[k].sinceClear = 1
        /\ hist[k].clearedStreak = 2
        /\ challengeCooldowns[k].ConsecutiveChallenges = 1

(***************************************************************************)
(* Properties of the fingerprint of an account                             *)
(***************************************************************************)
\* the user-agent holds a version and it is before v
UABelow(ua, v) == ua.version # << >> /\ VersionLess(ua.version, v)

\* C8: once a call has returned a fingerprint with user-agent version vN, a
\* later call that presents a version vM < vN does not leave the stored
\* user-agent below vN, whatever the cache's Get and Set do.
C8_NoDowngrade ==
    (/\ fpReturned.op = "call"
     /\ fpReturned.floor # << >>
     /\ UABelow(fpReturned.headers.UserAgent, fpReturned.floor))
    => ~UABelow(fpCache.UserAgent, fpReturned.floor)

\* C9: when all calls have finished (the cache having failed none of them), the
\* stored user-agent version is the maximum of the versions stored before and
\* presented, whatever the interleaving of the calls' cache reads and writes.
C9_ConcurrentMax ==
    (/\ \A p \in DOMAIN fpCalls : fpCalls[p].pc = "idle"
     /\ fpCache # NoFingerprint
     /\ ~fpHist.faulted
     /\ ~fpHist.unversioned)
    => fpCache.UserAgent.version = fpHist.presentedMax

\* C26 as stated: a call replaces the stored user-agent only when its own
\* user-agent names the same product as the stored one and carries a strictly
\* higher major.minor.patch; a user-agent of another product never replaces it.
C26_UpgradeWithinProduct ==
    [][\A p \in Callers :
          (/\ p \in DOMAIN fpCalls
           /\ fpCalls[p].pc = "idle"
           /\ fpCalls'[p].pc = "update")
          => /\ fpCalls'[p].fp.UserAgent = fpCalls'[p].headers.UserAgent
             /\ fpCalls'[p].fp.UserAgent.product = fpCache.UserAgent.product
             /\ VersionLess(fpCache.UserAgent.version,
                            fpCalls'[p].fp.UserAgent.version)]_vars

\* {"input":[{"type":"function_call_output","call_id":"c1"}]}
FunctionCallOutputOnly ==
    RequestBody("json", JAbsent, JAbsent, JAbsent,
                <<InputItem("function_call_output", "c1", "")>>)
\* a 400 invalid_request_error with the item_reference message, and nothing else
MissingItemReferenceResponse ==
    [out |-> <<Frame("json", 400, "invalid_request_error", MissingItemReferenceMessage)>>,
     status |-> 400]

\* C21 as stated: the body {"input":[{"type":"function_call_output","call_id":"c1"}]}
\* is answered with 400 invalid_request_error and the item_reference message.
C21_Original ==
    (Applied("validateRequest") /\ applied.args = FunctionCallOutputOnly)
    => applied.out = MissingItemReferenceResponse

\* C21, amended: that input in a body that also has a non-empty string model and
\* no stream field or a boolean one (and no previous_response_id) is answered
\* with 400 invalid_request_error and the item_reference message.
C21_WithModel ==
    (/\ Applied("validateRequest")
     /\ applied.args.kind = "json"
     /\ applied.args.model.t = "string" /\ applied.args.model.v # ""
     /\ applied.args.stream.t \in {"absent", "true", "false"}
     /\ applied.args.previous_response_id = JAbsent
     /\ applied.args.input = FunctionCallOutputOnly.input)
    => applied.out = MissingItemReferenceResponse

C21_Witness ==
    /\ Applied("validateRequest")
    /\ applied.args = [FunctionCallOutputOnly EXCEPT !.model = JString("gpt-5")]
    /\ applied.out = MissingItemReferenceResponse

\* min(base * min(s, 4), 3600) over the integers, for base > 0 and 1 <= m <= 4:
\* base * m exceeds 3600 exactly when base exceeds 3600 \div m
ClampedProduct(base, m) ==
    IF GreaterInt64(base, MaxCooldownSeconds \div m)
    THEN Int64Of(MaxCooldownSeconds)
    ELSE Int64Of(IntOf(base) * m)

\* C24 as stated: soraComputeChallengeCooldownSeconds(base, s) is
\* min(base * min(s, 4), 3600) for base > 0 and s >= 1, a streak below 1
\* counts as 1, and the result is 0 for base <= 0.
C24_CooldownFormula ==
    Applied("soraComputeChallengeCooldownSeconds")
    => LET base == applied.args.baseSeconds
           s == IF applied.args.streak < 1 THEN 1 ELSE applied.args.streak
           m == IF s < 4 THEN s ELSE 4
       IN  applied.out = IF GreaterInt64(base, 0) THEN ClampedProduct(base, m)
                         ELSE Int64Zero

\* C25 as stated: for every limit > 0 (a limit <= 0 counts as the 8 MiB
\* default) readUpstreamResponseBodyLimited returns the too-large error and no
\* body exactly when the reader yields more bytes than the limit, and returns
\* exactly the reader's bytes otherwise.
C25_LimitInclusive ==
    (/\ Applied("readUpstreamResponseBodyLimited")
     /\ ~applied.args.reader.nil
     /\ ~applied.args.reader.fails)
    => LET size == applied.args.reader.size
           limit == IF GreaterInt64(applied.args.maxBytes, 0)
                    THEN applied.args.maxBytes
                    ELSE Int64Of(DefaultUpstreamResponseReadMaxBytes)
       IN  IF IntGreaterThanInt64(size, limit)
           THEN applied.out = [body |-> NilBody, err |-> "upstream response body too large"]
           ELSE applied.out = [body |-> size, err |-> ""]

\* a sidecarSessionKey call under reuse has just returned for key k at its time t
SidecarReturnedFor(k, t) ==
    /\ sidecarReturned'.op = "sidecarSessionKey"
    /\ sidecarReturned'.session # ""
    /\ sidecarReturned'.key = k
    /\ sidecarReturned'.now = t
SidecarKeys ==
    {soraAccountProxyKey(a, normalizeSoraProxyKey(b, u)) :
        a \in SidecarAccountIDs, u \in SidecarProxyURLs, b \in Builds}
\* C27: while reuse is enabled, a call for a key whose entry has expires_at
\* later than the call's now returns the entry's session key and changes only
\* last_used_at; a call whose key has no entry or an entry with
\* expires_at <= now returns a new key, stored with expires_at = now + ttl
\* (now + one year when ttl <= 0).
C27_SessionReuse ==
    [][\A k \in SidecarKeys : \A p \in Callers :
          LET t == sidecarCalls[p].now IN
          (sidecarCalls[p].pc = "lock" /\ sidecarCalls'[p].pc = "idle" /\ sidecarCalls[p].key = k)
          => /\ SidecarReturnedFor(k, t)
             /\ IF k \in DOMAIN sidecarSessions /\ sidecarSessions[k].ExpiresAt > t
                THEN /\ sidecarReturned'.session = sidecarSessions[k].SessionKey
                     /\ sidecarSessions'[k] = [sidecarSessions[k] EXCEPT !.LastUsedAt = t]
                ELSE /\ \A n \in 1..sidecarSeq : sidecarReturned'.session # SidecarSessionKeyOf(n)
                     /\ sidecarSessions'[k].SessionKey = sidecarReturned'.session
                     /\ sidecarSessions'[k].LastUsedAt = t
                     /\ sidecarSessions'[k].ExpiresAt =
                            t + (IF sidecarCfg.ttl <= 0 THEN OneYearSeconds ELSE sidecarCfg.ttl)]_vars

\* the first entry of a key (ttl 2, created at 0) expires at 2, and a call at 2
\* has returned the second session key, stored with expires_at = 4
C27_Witness ==
    /\ sidecarReturned.op = "sidecarSessionKey"
    /\ sidecarReturned.session = SidecarSessionKeyOf(2)
    /\ sidecarReturned.now = 2
    /\ sidecarSeq = 2
    /\ DOMAIN sidecarSessions = {sidecarReturned.key}
    /\ sidecarSessions[sidecarReturned.key].ExpiresAt = 4
    /\ sidecarClock = 2

\* the URL has an authority with a host, and the port its scheme defaults to
HasDefaultPort(build, x) ==
    LET parsed == urlParse(build, TrimSpaceString(ProxyURL(x))) IN
    /\ ~parsed.err
    /\ Hostname(parsed) # << >>
    /\ \/ parsed.Scheme = "http" /\ x.port = <<":", "80">>
       \/ parsed.Scheme = "https" /\ x.port = <<":", "443">>

\* C28 as stated: normalizeSoraProxyKey is idempotent for every input, and an
\* http URL with port 80 or an https URL with port 443 normalizes to the key of
\* the same URL without the port.
C28_Idempotent ==
    Applied("normalizeSoraProxyKey")
    => LET build == applied.args.build
           x == applied.args.parts
       IN  /\ normalizeSoraProxyKey(build, applied.out) = applied.out
           /\ HasDefaultPort(build, x)
              => applied.out = normalizeSoraProxyKey(build, ProxyURL([x EXCEPT !.port = << >>]))

\* the session uuid of a rewritten body
SessionOf(body) == body.user_id[6]
Rewritten(call, result) == result # call.body

\* C29: for a fixed account id and captured session uuid the session uuid
\* RewriteUserID produces is the same on every call, whatever the incoming
\* client id, the account uuid, the stored client id and the rest of the body
\* are; and for every digest the uuid has version nibble 4 and variant bits 10.
C29_SessionDeterministic ==
    /\ Applied("RewriteUserID")
       => LET a == applied.args IN
          (/\ Rewritten(a.first, applied.out[1])
           /\ Rewritten(a.second, applied.out[2])
           /\ a.first.body.user_id[6] = a.second.body.user_id[6])
          => /\ SessionOf(applied.out[1]) = SessionOf(applied.out[2])
             /\ SessionOf(applied.out[1]).byte6 \div 16 = 4
             /\ SessionOf(applied.out[1]).byte8 \div 64 = 2
    /\ Applied("generateUUIDFromSeed")
       => /\ applied.out.byte6 \div 16 = 4
          /\ applied.out.byte8 \div 64 = 2

\* two calls with the same account id and captured session were rewritten, and
\* they differ in the client id, the account uuid, the stored client id and
\* the rest of the body
C29_Witness ==
    /\ Applied("RewriteUserID")
    /\ LET a == applied.args IN
       /\ Rewritten(a.first, applied.out[1])
       /\ Rewritten(a.second, applied.out[2])
       /\ a.first.body.user_id[6] = a.second.body.user_id[6]
       /\ a.first.body.user_id[2] # a.second.body.user_id[2]
       /\ a.first.body.rest # a.second.body.rest
       /\ a.first.accountUUID # a.second.accountUUID
       /\ a.first.cachedClientID # a.second.cachedClientID
       /\ applied.out[1].user_id = UserID(a.first.cachedClientID, a.first.accountUUID,
                                          SessionOf(applied.out[2]))

\* the download of a URL succeeds: the URL is not empty, the call is not
\* cancelled, and one of the three attempts gets a 200 whose body is not larger
\* than max_download_bytes
DownloadSucceeds(a, i) ==
    /\ a.urls[i].raw # ""
    /\ ~a.ctxCancelled
    /\ \E k \in 1..DownloadRetries :
          /\ a.urls[i].server[k].status = 200
          /\ a.urls[i].server[k].size <= a.storage.maxDownloadBytes
\* the result of the i-th URL is a stored path
IsStoredPath(a, r, i) == r = "/" \o a.mediaType \o "/2006/01/02/file-" \o ToString(i)

\* C30: with local storage enabled StoreFromURLs returns one result per URL in
\* input order, the stored relative path for a download that succeeded and,
\* with fallback_to_upstream on, the original URL for one that failed, and
\* never an error for a download; with fallback off a failing URL (one larger
\* than max_download_bytes included) makes the call return an error and no
\* results.
C30_ResultPerURL ==
    (/\ Applied("StoreFromURLs")
     /\ ~applied.args.storage.nil /\ applied.args.storage.enabled
     /\ applied.args.storage.ready \/ ~applied.args.storage.dirsFail)
    => LET a == applied.args
           out == applied.out
           perURL == /\ out.err = ""
                     /\ Len(out.results) = Len(a.urls)
                     /\ \A i \in DOMAIN a.urls :
                           IF DownloadSucceeds(a, i)
                           THEN IsStoredPath(a, out.results[i], i)
                           ELSE out.results[i] = a.urls[i].raw
       IN  IF a.storage.fallbackToUpstream \/ \A i \in DOMAIN a.urls : DownloadSucceeds(a, i)
           THEN perURL
           ELSE out.err # "" /\ out.results = << >>

\* with fallback on, a call with a stored file after a failed download; with
\* fallback off, a call that fails on a file larger than max_download_bytes
\* after a stored one
C30_Witness ==
    /\ Applied("StoreFromURLs")
    /\ ~applied.args.storage.nil /\ applied.args.storage.enabled
    /\ Len(applied.args.urls) = 2
    /\ \/ /\ applied.args.storage.fallbackToUpstream
          /\ ~DownloadSucceeds(applied.args, 1)
          /\ applied.out.results = <<applied.args.urls[1].raw,
                                     RelativePath(applied.args.mediaType, 2)>>
       \/ /\ ~applied.args.storage.fallbackToUpstream
          /\ DownloadSucceeds(applied.args, 1)
          /\ applied.args.urls[2].server[3] = LargeChunked
          /\ applied.out.err = "download size exceeds limit"

\* the streak and the until a record call at t computes from the entry e it finds
NewStreak(e, t) ==
    IF t - e.LastChallengeAt <= StreakWindow THEN e.ConsecutiveChallenges + 1 ELSE 1
NewUntil(e, t) ==
    t + Seconds(IntOf(soraComputeChallengeCooldownSeconds(Int64Of(baseCooldown), NewStreak(e, t))))
\* C31: when a record call finds an entry whose until is later than the until
\* it computes, the entry it writes keeps the existing until and the larger of
\* the existing and the computed streak, and its last_challenge_at is the
\* call's now.
C31_KeepsLaterUntil ==
    [][\A p \in Callers :
          LET k == calls[p].key
              t == calls[p].now
          IN  (/\ RecordStep(p)
               /\ k \in DOMAIN challengeCooldowns
               /\ challengeCooldowns[k].Until > t
               /\ challengeCooldowns[k].Until > NewUntil(challengeCooldowns[k], t))
              => LET e == challengeCooldowns[k]
                     s == NewStreak(e, t)
                 IN  /\ k \in DOMAIN challengeCooldowns'
                     /\ challengeCooldowns'[k].Until = e.Until
                     /\ challengeCooldowns'[k].ConsecutiveChallenges =
                            (IF e.ConsecutiveChallenges > s THEN e.ConsecutiveChallenges ELSE s)
                     /\ challengeCooldowns'[k].LastChallengeAt = t]_vars

\* with a base of 60 seconds, a record call outside the streak window of an
\* entry of streak 3 computed streak 1 and an earlier until: the entry keeps
\* its until (two minutes from now) and streak 3, with last_challenge_at = now
C31_Witness ==
    /\ ~cooldownCfg.nil
    /\ baseCooldown = 60
    /\ \A p \in Callers : calls[p].pc = "idle"
    /\ \E k \in DOMAIN challengeCooldowns :
          /\ challengeCooldowns[k].ConsecutiveChallenges = 3
          /\ challengeCooldowns[k].LastChallengeAt = now
          /\ challengeCooldowns[k].Until = now + Seconds(120)

\* the account slots the request holds
HeldAccountSlots == {a \in Accounts : acctSlot[a] = "held"}
\* C32: whenever SelectAccountWithLoadAwareness is about to be called the
\* request holds no account slot (the slot of a failed attempt was released
\* before the retry), and a request holds at most one account slot at any time.
C32_OneAccountSlot ==
    /\ pc = "select" => HeldAccountSlots = {}
    /\ Cardinality(HeldAccountSlots) <= 1

\* the second Forward call of a request is running on the slot of the second
\* account, the slot of the first, failed-over account having been released
C32_Witness ==
    /\ pc = "forward"
    /\ switchCount = 1
    /\ failedAccountIDs = {1}
    /\ acctSlot[1] = "released"
    /\ account = 2
    /\ acctSlot[2] = "held"

\* the step goes on to Forward with the account slot of this iteration held
ToForwardStep == pc # "forward" /\ pc' = "forward"
\* the step calls BindStickySession with account a
BindStep(a) == sticky' # sticky /\ sticky'.account = a
\* C33: a step in which the handler itself acquires the account slot (by
\* TryAcquireAccountSlot or after the wait) calls BindStickySession with the
\* selected account, whose slot is then held, and calls Forward, whether or
\* not the bind returned an error; a step that calls BindStickySession is
\* such a step, so an account whose slot the selection had acquired, or
\* whose slot was not acquired, is never bound.
C33_BindOnOwnAcquisition ==
    [][/\ (ToForwardStep /\ slotAcquiredBy' \in {"fast", "wait"})
          => /\ BindStep(account')
             /\ acctSlot'[account'] = "held"
             /\ forwardCalls' = forwardCalls + 1
             /\ writer' = writer
       /\ (sticky' # sticky)
          => /\ ToForwardStep
             /\ slotAcquiredBy' \in {"fast", "wait"}
             /\ sticky'.account = account'
             /\ acctSlot[account'] # "held"
             /\ acctSlot'[account'] = "held"
       /\ (ToForwardStep /\ slotAcquiredBy' = "selection") => sticky' = sticky]_vars

\* after a failover the handler waited for the slot of the second account,
\* BindStickySession returned an error, and Forward is running
C33_Witness ==
    /\ pc = "forward"
    /\ slotAcquiredBy = "wait"
    /\ switchCount = 1
    /\ sticky = [account |-> account, err |-> TRUE]
    /\ acctSlot[account] = "held"
    /\ forwardCalls = 2

\* the step is a clearCloudflareChallengeCooldown call that deleted the entry of k
ClearStep(k) ==
    /\ k \in DOMAIN challengeCooldowns
    /\ challengeCooldowns' = MapDelete(challengeCooldowns, k)
    /\ calls' = calls
\* the step is the locked part of a sidecarSessionKey call of goroutine p
SidecarLockedStep(p) == sidecarCalls[p].pc = "lock" /\ sidecarCalls'[p].pc = "idle"
\* C34: after a write to a registry (a cooldown Record or Clear, a sidecar
\* get-or-create) the registry holds no entry whose expiry is at or before
\* the time of the write.
C34_WritesPurgeExpired ==
    [][/\ \A p \in Callers :
             RecordStep(p) =>
                \A k \in DOMAIN challengeCooldowns' :
                    challengeCooldowns'[k].Until > calls[p].now
       /\ \A k \in Keys :
             ClearStep(k) =>
                \A j \in DOMAIN challengeCooldowns' : challengeCooldowns'[j].Until > now
       /\ \A p \in Callers :
             SidecarLockedStep(p) =>
                \A k \in DOMAIN sidecarSessions' :
                    sidecarSessions'[k].ExpiresAt > sidecarCalls[p].now]_vars

\* the step is the delete of a check call of caller p
CheckDeleteStep(p) == calls[p].pc = "checkDelete" /\ calls'[p].pc = "idle"
\* C35: a check call removes an entry only if the entry's until is at or
\* before the time of the removal: the entry a concurrent Record wrote after
\* the check had read an expired one is not deleted.
C35_CheckDeletesExpiredOnly ==
    [][\A p \in Callers :
          (CheckDeleteStep(p) /\ calls[p].key \in DOMAIN challengeCooldowns)
          => challengeCooldowns[calls[p].key].Until <= now]_vars

\* C36: while no cache call has failed, every GetOrCreateFingerprint call
\* returns the client_id the first call of the account returned, concurrent
\* first-use calls included, and the X-Stainless values of the stored
\* fingerprint never change once stored.
C36_StableClientID ==
    [][~fpHist'.faulted =>
          /\ fpReturned'.op = "call" => fpReturned'.fp.ClientID = fpHist'.firstClientID
          /\ fpCache # NoFingerprint =>
                /\ fpCache'.ClientID = fpCache.ClientID
                /\ fpCache'.StainlessOS = fpCache.StainlessOS]_vars

\* the last getAccessToken call found a stored access_token that was about to
\* expire, and its recovery succeeded
RecoveredExpiringToken ==
    /\ tmReturned.op = "getAccessToken"
    /\ TrimSpace(tmReturned.stored) # ""
    /\ tmReturned.recoverErr = ""
    /\ TrimSpace(tmReturned.recovered) # ""
\* the token that recovery produced is valid for more than two minutes: the
\* session exchange reports the expiry it stored, a refresh reports none
NewTokenStillValid ==
    tmReturned.recovered = "at-session-1" => credentials.expires_at - wall > ExpiryMargin
\* C37: after a recovery that an expiring access_token triggered and that
\* succeeded, by the session token or by the refresh token, the next
\* getAccessToken call (no token provider in use, the new token still valid
\* for more than two minutes) returns the stored token without another
\* recovery.
C37_NoSecondRecovery ==
    [][(/\ tmPc = "idle"
        /\ tmCalls' = tmCalls + 1
        /\ ~allowOpenAITokenProvider(tmCfg)
        /\ RecoveredExpiringToken
        /\ NewTokenStillValid)
       => /\ tmPc' = "idle"
          /\ tmReturned'.err = ""
          /\ tmReturned'.token = TrimSpace(credentials.access_token)
          /\ tmReturned'.token = tmReturned.recovered]_vars

\* C38: in every state of the failover loop the excluded set is the set of
\* accounts whose Forward returned a failover error in this request,
\* switchCount is at most max_account_switches, and lastFailoverErr is set
\* exactly when the excluded set is not empty (a selection failure after a
\* failover always has a failover error to report).
C38_FailoverContext ==
    /\ failedAccountIDs = failedOver
    /\ switchCount <= maxAccountSwitches
    /\ lastFailoverErr # NoErr <=> failedAccountIDs # {}
    /\ failoverCodes = {} <=> failedAccountIDs = {}

\* the selection is about to run with the switch budget used up: as many
\* accounts excluded as switches made, the last failover error a 429
C38_Witness ==
    /\ pc = "select"
    /\ switchCount = maxAccountSwitches
    /\ Cardinality(failedAccountIDs) = switchCount
    /\ lastFailoverErr.StatusCode = 429
    /\ 502 \in failoverCodes

\* the handler keeps running: each slot wait, the billing check, each account
\* selection and each Forward call returns
HandlerProgress ==
    /\ WF_vars(TryUserSlot)
    /\ WF_vars(UserWaitReturn)
    /\ WF_vars(Billing)
    /\ WF_vars(Select)
    /\ WF_vars(AcctWaitReturn)
    /\ WF_vars(ForwardReturn)

\* requests of a handler without error pass-through rules (the rules choose
\* the text of an error response only)
InitLive == Init /\ errorPassthroughService = {}

SpecLive == InitLive /\ [][Next]_vars /\ HandlerProgress

C40_OneClientPerProxyURL ==
    [][/\ \A proxyURL \in DOMAIN sdkClients :
            /\ proxyURL \in DOMAIN sdkClients'
            /\ sdkClients'[proxyURL] = sdkClients[proxyURL]
       /\ (sdkReturned'.op = "getSDKClient" /\ ~sdkReturned'.err) =>
            /\ sdkReturned'.proxyURL \in DOMAIN sdkClients'
            /\ sdkReturned'.client = sdkClients'[sdkReturned'.proxyURL]]_vars

\* two first calls for one URL both passed Load and both created an instance;
\* the second one to store has just returned the instance of the first
C40_Witness ==
    /\ sdkReturned.op = "getSDKClient"
    /\ ~sdkReturned.err
    /\ sdkReturned.proxyURL = <<"http", ":", "/", "/", "host">>
    /\ sdkNew = 2
    /\ sdkReturned.created = 2
    /\ sdkReturned.client = 1
    /\ sdkClients[sdkReturned.proxyURL] = 1
    /\ \A p \in Callers : sdkCalls[p].pc = "idle"

====
